---- MODULE Spec2Model ----
(***************************************************************************)
(* Model of the status-tracker core: the request lifecycle state machine   *)
(* (app/core/state_machine.py), the event correlator                       *)
(* (app/core/correlator.py), the aggregate-state calculator                *)
(* (app/services/state_calculator.py) and the adapters that drive them     *)
(* (app/plugins/*.py, app/routers/*.py, app/services/library_sync.py).     *)
(***************************************************************************)
EXTENDS Integers, Sequences, FiniteSets, TLC

\* ---------------------------------------------------------------- bounds
MaxReq == 2      \* rows the requests table may hold
MaxId == 1       \* correlation ids are drawn from 1..MaxId
MaxClock == 4    \* number of timestamped writes explored
MaxEps == 2      \* episode numbers are drawn from 1..MaxEps
MaxFlow == 7     \* number of timestamped writes explored for one lifecycle
MaxClients == 2  \* SSE clients connected at once
MaxEvents == 3   \* events published while a client leaves them unread

\* ---------------------------------------------------------------- values
None == 0        \* Python None / a falsy id
Raise == -1      \* sqlalchemy MultipleResultsFound propagating to the caller

RequestState ==
  {"REQUESTED", "APPROVED", "GRABBING", "DOWNLOADING", "DOWNLOADED",
   "IMPORTING", "ANIME_MATCHING", "AVAILABLE", "FAILED", "TIMEOUT",
   "MATCH_FAILED"}

\* enum aliases: same member as GRABBING / DOWNLOADED
INDEXED == "GRABBING"
DOWNLOAD_DONE == "DOWNLOADED"

EpisodeState ==
  {"GRABBING", "DOWNLOADING", "DOWNLOADED", "IMPORTING", "ANIME_MATCHING",
   "AVAILABLE", "FAILED", "MATCH_FAILED"}

MediaType == {"MOVIE", "TV"}

Ids == 1..MaxId
IdsOrNone == 0..MaxId

\* A download hash is a string; it is modelled as a sequence of characters
\* so that the case folding of ILIKE is computed character by character.
NoHash == << >>
HashInputs == {<<"a", "b">>, <<"A", "B">>}

LowerChar(c) ==
  CASE c = "A" -> "a"
    [] c = "B" -> "b"
    [] OTHER -> c

Lower(h) == [i \in 1..Len(h) |-> LowerChar(h[i])]

\* ---------------------------------------------------------------- state
VARIABLES
  requests,   \* the requests table: id -> row (episodes embedded)
  timeline,   \* the timeline_events table, in insertion order
  now,        \* the clock read by datetime.utcnow()
  last,       \* what the last operation was called with and what it returned
  txn,        \* webhook transactions that have read but not yet committed
  deletion_logs,         \* the deletion_logs table: id -> row
  deletion_sync_events,  \* the deletion_sync_events table, in insertion order
  remote,     \* the calls the service clients have made, with their answers
  settings,   \* app.config.settings
  orch,       \* the position of the DeletionOrchestrator coroutine
  verifier,   \* the position of the DeletionVerifier task
  tasks,      \* the background loops lifespan() starts: name -> position
  _clients    \* Broadcaster._clients: the queue of each subscribed client

\* the tables and the coroutine of the deletion subsystem
del_vars == <<deletion_logs, deletion_sync_events, remote, settings, orch, verifier>>

\* the background loops and the broadcaster
bg_vars == <<tasks, _clients>>

vars == <<requests, timeline, now, last, txn, deletion_logs,
          deletion_sync_events, remote, settings, orch, verifier, tasks,
          _clients>>

\* ------------------------------------------------------- state machine
VALID_TRANSITIONS ==
  [s \in RequestState |->
     CASE s = "REQUESTED" -> {"APPROVED", "FAILED"}
       [] s = "APPROVED" -> {"GRABBING", "AVAILABLE", "FAILED"}
       [] s = "GRABBING" -> {"DOWNLOADING", "IMPORTING", "FAILED"}
       [] s = "DOWNLOADING" -> {"DOWNLOADED", "FAILED", "TIMEOUT"}
       [] s = "DOWNLOADED" -> {"IMPORTING", "ANIME_MATCHING", "AVAILABLE", "FAILED"}
       [] s = "IMPORTING" -> {"AVAILABLE", "ANIME_MATCHING", "FAILED", "TIMEOUT"}
       [] s = "ANIME_MATCHING" -> {"AVAILABLE", "MATCH_FAILED", "FAILED"}
       [] s = "AVAILABLE" -> {"FAILED"}
       [] s = "MATCH_FAILED" -> {"ANIME_MATCHING", "AVAILABLE"}
       [] s = "FAILED" -> {"APPROVED"}
       [] s = "TIMEOUT" -> {"APPROVED"}]

can_transition_any(current, target) == TRUE

can_transition_reflexive(current, target) ==
  target = current \/ target \in VALID_TRANSITIONS[current]

can_transition(current, target) == target \in VALID_TRANSITIONS[current]

\* A TimelineEvent row.  kind tells which code path wrote it.
TimelineEvent(rid, state, kind, ts) ==
  [request_id |-> rid, state |-> state, kind |-> kind, timestamp |-> ts]

transition_unrecorded(rid, row, new_state, ts) ==
  IF ~can_transition(row.state, new_state)
  THEN [ok |-> FALSE, row |-> row, events |-> << >>]
  ELSE [ok |-> TRUE,
        row |-> [row EXCEPT !.state = new_state,
                            !.state_changed_at = ts,
                            !.updated_at = ts],
        events |-> << >>]

transition_stale(rid, row, new_state, ts) ==
  IF ~can_transition(row.state, new_state)
  THEN [ok |-> FALSE, row |-> row, events |-> << >>]
  ELSE [ok |-> TRUE,
        row |-> [row EXCEPT !.state = new_state, !.updated_at = ts],
        events |-> <<TimelineEvent(rid, new_state, "transition", ts)>>]

\* StateMachine.transition on a loaded row: the row afterwards, the events
\* added to the session and the value returned.
transition(rid, row, new_state, ts) ==
  IF ~can_transition(row.state, new_state)
  THEN [ok |-> FALSE, row |-> row, events |-> << >>]
  ELSE [ok |-> TRUE,
        row |-> [row EXCEPT !.state = new_state,
                            !.state_changed_at = ts,
                            !.updated_at = ts],
        events |-> <<TimelineEvent(rid, new_state, "transition", ts)>>]

\* StateMachine.add_event: a timeline entry carrying the current state.
add_event(rid, row, ts) ==
  [row |-> [row EXCEPT !.updated_at = ts],
   events |-> <<TimelineEvent(rid, row.state, "event", ts)>>]

\* ----------------------------------------------------------- correlator
ACTIVE_STATES ==
  {"REQUESTED", "APPROVED", INDEXED, "DOWNLOADING", DOWNLOAD_DONE,
   "IMPORTING", "ANIME_MATCHING"}

\* Result.scalar_one_or_none over the rows selected
scalar_one_or_none(rows) ==
  IF rows = {} THEN None
  ELSE IF Cardinality(rows) = 1 THEN CHOOSE r \in rows : TRUE
  ELSE Raise

find_by_jellyseerr_id(db, jellyseerr_id) ==
  scalar_one_or_none({r \in DOMAIN db :
      /\ db[r].jellyseerr_id /= None
      /\ db[r].jellyseerr_id = jellyseerr_id
      /\ db[r].state \in ACTIVE_STATES \cup {"AVAILABLE"}})

find_by_tmdb_all_states(db, tmdb_id) ==
  scalar_one_or_none({r \in DOMAIN db :
      /\ db[r].tmdb_id /= None
      /\ db[r].tmdb_id = tmdb_id})

find_by_tmdb(db, tmdb_id) ==
  scalar_one_or_none({r \in DOMAIN db :
      /\ db[r].tmdb_id /= None
      /\ db[r].tmdb_id = tmdb_id
      /\ db[r].state \in ACTIVE_STATES})

find_by_tvdb(db, tvdb_id) ==
  scalar_one_or_none({r \in DOMAIN db :
      /\ db[r].tvdb_id /= None
      /\ db[r].tvdb_id = tvdb_id
      /\ db[r].state \in ACTIVE_STATES})

find_by_hash_exact(db, qbit_hash) ==
  IF qbit_hash = NoHash THEN None
  ELSE scalar_one_or_none({r \in DOMAIN db :
      /\ db[r].qbit_hash /= NoHash
      /\ db[r].qbit_hash = qbit_hash})

find_by_hash(db, qbit_hash) ==
  IF qbit_hash = NoHash THEN None
  ELSE scalar_one_or_none({r \in DOMAIN db :
      /\ db[r].qbit_hash /= NoHash
      /\ Lower(db[r].qbit_hash) = Lower(qbit_hash)})

find_by_any_catalog_first(db, tmdb_id, tvdb_id, jellyseerr_id, qbit_hash) ==
  LET t == IF tmdb_id /= None THEN find_by_tmdb(db, tmdb_id) ELSE None
      v == IF tvdb_id /= None THEN find_by_tvdb(db, tvdb_id) ELSE None
      j == IF jellyseerr_id /= None
           THEN find_by_jellyseerr_id(db, jellyseerr_id) ELSE None
      h == IF qbit_hash /= NoHash THEN find_by_hash(db, qbit_hash) ELSE None
  IN IF t /= None THEN t
     ELSE IF v /= None THEN v
     ELSE IF j /= None THEN j
     ELSE h

\* EventCorrelator.find_by_any: hash > jellyseerr > tmdb > tvdb.  A lookup
\* that raises ends the call with the exception.
find_by_any(db, tmdb_id, tvdb_id, jellyseerr_id, qbit_hash) ==
  LET h == IF qbit_hash /= NoHash THEN find_by_hash(db, qbit_hash) ELSE None
      j == IF jellyseerr_id /= None
           THEN find_by_jellyseerr_id(db, jellyseerr_id) ELSE None
      t == IF tmdb_id /= None THEN find_by_tmdb(db, tmdb_id) ELSE None
      v == IF tvdb_id /= None THEN find_by_tvdb(db, tvdb_id) ELSE None
  IN IF h /= None THEN h
     ELSE IF j /= None THEN j
     ELSE IF t /= None THEN t
     ELSE v

\* ------------------------------------------------- aggregate calculator
\* calculate_aggregate_state: row.episodes maps episode number -> episode
calculate_aggregate_state(row) ==
  LET states == {row.episodes[e].state : e \in DOMAIN row.episodes}
  IN IF row.media_type = "MOVIE" THEN row.state
     ELSE IF DOMAIN row.episodes = {} THEN row.state
     ELSE IF states = {"AVAILABLE"} THEN "AVAILABLE"
     ELSE IF "FAILED" \in states THEN "FAILED"
     ELSE IF "ANIME_MATCHING" \in states THEN "ANIME_MATCHING"
     ELSE IF "IMPORTING" \in states THEN "IMPORTING"
     ELSE IF "DOWNLOADED" \in states THEN "DOWNLOADED"
     ELSE IF "DOWNLOADING" \in states THEN "DOWNLOADING"
     ELSE IF "GRABBING" \in states THEN "GRABBING"
     ELSE row.state

\* ------------------------------------------------------------ the store
Max(S) == CHOOSE x \in S : \A y \in S : y <= x

\* the primary key SQLite gives the next inserted row
NewId(db) == IF DOMAIN db = {} THEN 1 ELSE Max(DOMAIN db) + 1

NoEpisodes == << >>

\* MediaRequest(...) as the constructors of the adapters fill it
MediaRequest(media_type, state, jellyseerr_id, tmdb_id, tvdb_id, ts) ==
  [media_type |-> media_type, state |-> state,
   jellyseerr_id |-> jellyseerr_id, tmdb_id |-> tmdb_id, tvdb_id |-> tvdb_id,
   qbit_hash |-> NoHash, is_anime |-> "None",
   sonarr_id |-> None, radarr_id |-> None, shoko_series_id |-> None,
   jellyfin_id |-> None,
   created_at |-> ts, updated_at |-> ts, state_changed_at |-> ts,
   episodes |-> NoEpisodes]

Episode(state, qbit_hash, has_path) ==
  [state |-> state, qbit_hash |-> qbit_hash, has_path |-> has_path]

\* the columns of the requests table (episodes live in their own table)
Columns(row) == [row EXCEPT !.episodes = NoEpisodes]

\* Session flush of a loaded row: updated_at has onupdate=datetime.utcnow,
\* applied when another column changed and updated_at was not set
flush(old, new, ts) ==
  IF Columns(new) /= Columns(old) /\ new.updated_at = old.updated_at
  THEN [new EXCEPT !.updated_at = ts]
  ELSE new

\* the record of an operation: op names it and ret is what its lookup
\* returned; when it called StateMachine.transition on request rid, called
\* is TRUE and from/target/ok are the call's states and result
Last(op, ret, rid, called, from, target, ok) ==
  [op |-> op, ret |-> ret, rid |-> rid, called |-> called,
   from |-> from, target |-> target, ok |-> ok]

NoCall(op, ret) == Last(op, ret, None, FALSE, "-", "-", FALSE)

Called(op, rid, from, target, ok) ==
  Last(op, rid, rid, TRUE, from, target, ok)

\* what a handler leaves behind: the table, the events inserted, the record
Outcome(db, events, l) == [db |-> db, events |-> events, last |-> l]

Unchanged(l) == Outcome(requests, << >>, l)

\* db.commit() of a handler's outcome; the clock advances with every write
Store(out, limit) ==
  /\ (out.db /= requests \/ out.events /= << >>) => now <= limit
  /\ requests' = out.db
  /\ timeline' = timeline \o out.events
  /\ last' = out.last
  /\ now' = IF out.db /= requests \/ out.events /= << >> THEN now + 1 ELSE now

WriteUntil(out, limit) ==
  /\ Store(out, limit)
  /\ UNCHANGED del_vars
  /\ UNCHANGED bg_vars

Write(out) == WriteUntil(out, MaxClock)

Commit(out) == Write(out) /\ UNCHANGED txn

\* a handler that loaded row rid, changed it to row and called transition
Transitioned(op, rid, row, target) ==
  LET res == transition(rid, row, target, now)
  IN Outcome([requests EXCEPT ![rid] = flush(requests[rid], res.row, now)],
             res.events,
             Called(op, rid, row.state, target, res.ok))

\* ------------------------------------------------------------- actions
Txns == {1, 2}

Idle == [pc |-> "idle", rid |-> None, row |-> << >>, target |-> "-"]

\* no delete has been asked for: empty deletion tables, the orchestrator
\* not running; ENABLE_DELETION_SYNC has its default
NotRunning == [pc |-> "idle", request_id |-> None, log |-> None, queue |-> << >>, delete_files |-> FALSE, skip_services |-> {}, ret |-> None]

NotVerifying == [pc |-> "idle", log |-> None, retry_count |-> 0, todo |-> {}, all_verified |-> TRUE, ret |-> "-"]

NoDeletion ==
  /\ deletion_logs = << >>
  /\ deletion_sync_events = << >>
  /\ remote = << >>
  /\ settings = [ENABLE_DELETION_SYNC |-> FALSE]
  /\ orch = NotRunning
  /\ verifier = NotVerifying

\* the application has just started: lifespan() has created the three loop
\* tasks and none has run yet; no SSE client is connected, so that a
\* broadcast returns without touching a queue
Loops == {"polling_loop", "timeout_checker_loop", "jellyfin_fallback_loop"}

Started == [pc |-> "tick", interval |-> None, caught |-> FALSE]

NoBackground ==
  /\ tasks = [l \in Loops |-> Started]
  /\ _clients = << >>

Init ==
  /\ requests = << >>
  /\ timeline = << >>
  /\ now = 1
  /\ last = NoCall("init", None)
  /\ txn = [t \in Txns |-> Idle]
  /\ NoDeletion
  /\ NoBackground

\* StateMachine.transition called on a stored request and committed, as the
\* download client poller, the timeout sweep and the Jellyfin verifier do
Transition(rid, target) ==
  /\ rid \in DOMAIN requests
  /\ Commit(Transitioned("transition", rid, requests[rid], target))

\* JellyseerrPlugin._create_request: insert the row, then add_event
create_request(media_type, jellyseerr_id, tmdb_id, tvdb_id, auto_approved) ==
  LET rid == NewId(requests)
      initial_state == IF auto_approved THEN "APPROVED" ELSE "REQUESTED"
      row == MediaRequest(media_type, initial_state, jellyseerr_id, tmdb_id,
                          tvdb_id, now)
      added == add_event(rid, row, now)
  IN Outcome((rid :> added.row) @@ requests, added.events,
             Last("create_request", None, rid, FALSE, "-", "-", FALSE))

NotificationTypes ==
  {"MEDIA_PENDING", "MEDIA_AUTO_APPROVED", "MEDIA_APPROVED",
   "MEDIA_AVAILABLE", "MEDIA_FAILED"}

\* JellyseerrPlugin.handle_webhook, committed (or rolled back when the
\* handler raises) by routers/webhooks.handle_webhook.  MEDIA_AVAILABLE
\* iterates request.episodes, a lazy relationship (models.py:197) of a row
\* the correlator loaded without it: under AsyncSession the lazy load
\* raises MissingGreenlet unless the session already holds the collection
\* (loaded).
jellyseerr_webhook(ntype, media_type, jellyseerr_id, tmdb_id, tvdb_id, loaded) ==
  LET request == find_by_any(requests, tmdb_id, tvdb_id, jellyseerr_id, NoHash)
      row == requests[request]
      all_available ==
        [row EXCEPT !.episodes =
           [e \in DOMAIN row.episodes |->
              [row.episodes[e] EXCEPT !.state = "AVAILABLE"]]]
  IN IF request = Raise THEN Unchanged(NoCall("jellyseerr", Raise))
     ELSE IF ntype \in {"MEDIA_PENDING", "MEDIA_AUTO_APPROVED"}
     THEN IF request = None
          THEN create_request(media_type, jellyseerr_id, tmdb_id, tvdb_id,
                              ntype = "MEDIA_AUTO_APPROVED")
          ELSE Unchanged(NoCall("jellyseerr", request))
     ELSE IF request = None THEN Unchanged(NoCall("jellyseerr", None))
     ELSE IF ntype = "MEDIA_APPROVED"
     THEN Transitioned("jellyseerr", request, row, "APPROVED")
     ELSE IF ntype = "MEDIA_AVAILABLE"
     THEN IF loaded
          THEN Transitioned("jellyseerr", request, all_available,
                            "AVAILABLE")
          ELSE Unchanged(NoCall("jellyseerr", request))
     ELSE Transitioned("jellyseerr", request, row, "FAILED")

JellyseerrWebhook(ntype, media_type, jellyseerr_id, tmdb_id, tvdb_id, loaded) ==
  LET out == jellyseerr_webhook(ntype, media_type, jellyseerr_id, tmdb_id,
                                tvdb_id, loaded)
  IN /\ ntype /= "MEDIA_AVAILABLE" => loaded
     /\ Cardinality(DOMAIN out.db) <= MaxReq
     /\ Commit(out)

\* LibrarySyncService._process_jellyfin_item for one library item that
\* Jellyfin lists under an id not yet tracked, then the sync's commit
process_jellyfin_item(media_type, tmdb_id, tvdb_id) ==
  LET existing_tmdb_ids == {requests[r].tmdb_id : r \in DOMAIN requests} \ {None}
      existing_tvdb_ids == {requests[r].tvdb_id : r \in DOMAIN requests} \ {None}
      rid == NewId(requests)
      row == MediaRequest(media_type, "AVAILABLE", None, tmdb_id, tvdb_id, now)
  IN IF tmdb_id /= None /\ tmdb_id \in existing_tmdb_ids
     THEN Unchanged(NoCall("library_sync", None))
     ELSE IF tvdb_id /= None /\ tvdb_id \in existing_tvdb_ids
     THEN Unchanged(NoCall("library_sync", None))
     ELSE Outcome((rid :> row) @@ requests,
                  <<TimelineEvent(rid, "AVAILABLE", "import", now)>>,
                  Last("library_sync", None, rid, FALSE, "-", "-", FALSE))

LibrarySync(media_type, tmdb_id, tvdb_id) ==
  LET out == process_jellyfin_item(media_type, tmdb_id, tvdb_id)
  IN /\ Cardinality(DOMAIN out.db) <= MaxReq
     /\ Commit(out)

retry_request_assign(request_id) ==
  IF request_id \notin DOMAIN requests
  THEN Unchanged(NoCall("retry", None))
  ELSE Outcome([requests EXCEPT ![request_id].state = "APPROVED",
                                ![request_id].state_changed_at = now,
                                ![request_id].updated_at = now],
               <<TimelineEvent(request_id, "APPROVED", "transition", now)>>,
               NoCall("retry", request_id))

\* POST /requests/{request_id}/retry
retry_request(request_id) ==
  IF request_id \notin DOMAIN requests
  THEN Unchanged(NoCall("retry", None))
  ELSE IF requests[request_id].state \notin {"FAILED", "TIMEOUT"}
  THEN Unchanged(NoCall("retry", request_id))
  ELSE Transitioned("retry", request_id, requests[request_id],
                    "APPROVED")

RetryRequest(request_id) == Commit(retry_request(request_id))

Bool(b) == IF b THEN "True" ELSE "False"

EpisodeLists == SUBSET (1..MaxEps)

\* SonarrPlugin._handle_grab on the request the lookup found; episodes_data
\* lists the episode numbers of the grabbed release
sonarr_grab(request, download_id, episodes_data, anime) ==
  LET row == requests[request]
      old == row.episodes
      grabbed(e) ==
        IF e \in DOMAIN old
        THEN IF download_id /= NoHash /\ old[e].qbit_hash /= download_id
             THEN [old[e] EXCEPT !.qbit_hash = download_id,
                                 !.state = "GRABBING"]
             ELSE old[e]
        ELSE Episode("GRABBING", download_id, FALSE)
      episodes == [e \in DOMAIN old \cup episodes_data |->
                     IF e \in episodes_data THEN grabbed(e) ELSE old[e]]
      changed == [row EXCEPT
                    !.qbit_hash = IF download_id /= NoHash /\ @ = NoHash
                                  THEN download_id ELSE @,
                    !.is_anime = Bool(anime),
                    !.episodes = episodes]
  IN Transitioned("sonarr_grab", request, changed, "GRABBING")

\* the position of episode e in the payload's episode list
IndexOf(e, episodes_data) == Cardinality({x \in episodes_data : x < e})

\* SonarrPlugin._handle_download; the first nfiles listed episodes come
\* with an episode file
sonarr_download(request, episodes_data, nfiles, anime) ==
  LET row == requests[request]
      old == row.episodes
      is_anime == IF row.is_anime = "None" THEN Bool(anime) ELSE row.is_anime
      target_episode_state ==
        IF is_anime = "True" THEN "ANIME_MATCHING" ELSE "IMPORTING"
      imported(e) ==
        IF IndexOf(e, episodes_data) < nfiles
        THEN [old[e] EXCEPT !.state = target_episode_state,
                            !.has_path = TRUE]
        ELSE [old[e] EXCEPT !.state = target_episode_state]
      episodes == [e \in DOMAIN old |->
                     IF e \in episodes_data THEN imported(e) ELSE old[e]]
      changed == [row EXCEPT !.is_anime = is_anime, !.episodes = episodes]
      new_state == calculate_aggregate_state(changed)
  IN Transitioned("sonarr_download", request, changed, new_state)

\* SonarrPlugin.handle_webhook for Grab and Download events
sonarr_webhook(event_type, tvdb_id, download_id, episodes_data, nfiles, anime) ==
  LET request == find_by_any(requests, None, tvdb_id, None, download_id)
  IN IF tvdb_id = None THEN Unchanged(NoCall("sonarr", None))
     ELSE IF request \in {None, Raise}
     THEN Unchanged(NoCall("sonarr", request))
     ELSE IF event_type = "Grab"
     THEN sonarr_grab(request, download_id, episodes_data, anime)
     ELSE sonarr_download(request, episodes_data, nfiles, anime)

SonarrWebhook(event_type, tvdb_id, download_id, episodes_data, nfiles, anime) ==
  Commit(sonarr_webhook(event_type, tvdb_id, download_id, episodes_data,
                        nfiles, anime))

\* RadarrPlugin.handle_webhook for Grab and Download events
radarr_webhook(event_type, tmdb_id, download_id, anime) ==
  LET request == find_by_any(requests, tmdb_id, None, None, download_id)
      row == requests[request]
      grabbed == [row EXCEPT
                    !.qbit_hash = IF download_id /= NoHash
                                  THEN download_id ELSE @,
                    !.is_anime = Bool(anime)]
      is_anime == IF row.is_anime = "None" THEN Bool(anime) ELSE row.is_anime
      imported == [row EXCEPT !.is_anime = is_anime]
      target_state ==
        IF is_anime = "True" THEN "ANIME_MATCHING" ELSE "IMPORTING"
  IN IF tmdb_id = None THEN Unchanged(NoCall("radarr", None))
     ELSE IF request \in {None, Raise}
     THEN Unchanged(NoCall("radarr", request))
     ELSE IF event_type = "Grab"
     THEN Transitioned("radarr_grab", request, grabbed, "GRABBING")
     ELSE Transitioned("radarr_download", request, imported, target_state)

RadarrWebhook(event_type, tmdb_id, download_id, anime) ==
  Commit(radarr_webhook(event_type, tmdb_id, download_id, anime))

\* the episodes find_episode_by_path can return: a stored path and a
\* state Shoko events are accepted in
ShokoEpisodeStates == {"IMPORTING", "ANIME_MATCHING", "MATCH_FAILED"}

handle_tv_episode_matched_available(rid, e, has_cross_references) ==
  LET row == requests[rid]
      available == [row EXCEPT !.episodes[e].state = "AVAILABLE"]
  IN Transitioned("shoko_matched", rid, available,
                  calculate_aggregate_state(available))

\* _handle_tv_episode_matched for the episode whose file Shoko reports
handle_tv_episode_matched(rid, e, has_cross_references) ==
  LET row == requests[rid]
      episode == row.episodes[e]
      matching == [row EXCEPT !.episodes[e].state = "ANIME_MATCHING"]
  IN IF has_cross_references
     THEN IF row.state \notin {"ANIME_MATCHING", "AVAILABLE"}
          THEN Transitioned("shoko_matched", rid, matching,
                            "ANIME_MATCHING")
          ELSE Outcome([requests EXCEPT ![rid] = matching], << >>,
                       Last("shoko_matched", rid, rid, FALSE,
                            "-", "-", FALSE))
     ELSE IF episode.state = "IMPORTING"
     THEN Outcome([requests EXCEPT ![rid] = matching], << >>,
                  Last("shoko_detected", rid, rid, FALSE,
                       "-", "-", FALSE))
     ELSE Unchanged(Last("shoko_detected", rid, rid, FALSE,
                         "-", "-", FALSE))

ShokoFileMatched(rid, e, has_cross_references) ==
  /\ rid \in DOMAIN requests
  /\ e \in DOMAIN requests[rid].episodes
  /\ requests[rid].episodes[e].has_path
  /\ requests[rid].episodes[e].state \in ShokoEpisodeStates
  /\ Commit(handle_tv_episode_matched(rid, e, has_cross_references))

\* JellyfinPlugin.handle_webhook for an ItemAdded of a movie or episode
jellyfin_webhook(tmdb_id, tvdb_id) ==
  LET request == find_by_any(requests, tmdb_id, tvdb_id, None, NoHash)
  IN IF tmdb_id = None /\ tvdb_id = None
     THEN Unchanged(NoCall("jellyfin", None))
     ELSE IF request \in {None, Raise}
     THEN Unchanged(NoCall("jellyfin", request))
     ELSE IF requests[request].state = "AVAILABLE"
     THEN Unchanged(NoCall("jellyfin", request))
     ELSE Transitioned("jellyfin", request, requests[request], "AVAILABLE")

JellyfinWebhook(tmdb_id, tvdb_id) == Commit(jellyfin_webhook(tmdb_id, tvdb_id))

\* ------------------------------------------- concurrent webhook handlers
\* A webhook handler runs in its own session (get_db).  It first loads the
\* request (an await on the database), and later, after further awaits,
\* calls StateMachine.transition on the loaded object and commits.  Between
\* the two steps other handlers run.
WebhookLoad(t, rid, target) ==
  /\ txn[t].pc = "idle"
  /\ \A u \in Txns : u < t => txn[u].pc = "loaded"
  /\ rid \in DOMAIN requests
  /\ txn' = [txn EXCEPT ![t] = [pc |-> "loaded", rid |-> rid,
                                row |-> requests[rid], target |-> target]]
  /\ last' = NoCall("load", rid)
  /\ UNCHANGED <<requests, timeline, now>>
  /\ UNCHANGED del_vars
  /\ UNCHANGED bg_vars

\* the unit of work flushed at commit: UPDATE requests SET <the attributes
\* the session changed> WHERE id = rid, and the INSERT of the new events
WebhookCommit(t) ==
  LET rid == txn[t].rid
      res == transition(rid, txn[t].row, txn[t].target, now)
  IN /\ txn[t].pc = "loaded"
     /\ Write(Outcome(
          IF res.ok
          THEN [requests EXCEPT ![rid].state = res.row.state,
                                ![rid].state_changed_at = res.row.state_changed_at,
                                ![rid].updated_at = res.row.updated_at]
          ELSE requests,
          res.events,
          Called("webhook", rid, txn[t].row.state, txn[t].target,
                 res.ok)))
     /\ txn' = [txn EXCEPT ![t] = Idle]

\* ------------------------------------------------- deletion orchestrator
ServiceSyncStatus ==
  {"PENDING", "ACKNOWLEDGED", "CONFIRMED", "VERIFIED", "FAILED", "SKIPPED",
   "NOT_NEEDED", "NOT_APPLICABLE"}

DeletionStatus == {"IN_PROGRESS", "COMPLETE", "INCOMPLETE"}

\* the services, in the order of the dict _determine_services builds
SERVICES == <<"sonarr", "radarr", "shoko", "jellyfin", "jellyseerr">>

Services == {SERVICES[i] : i \in 1..Len(SERVICES)}

\* what a service answers a client's request: 200, 404, or anything else
\* (another status, no answer at all)
Responses == {"200", "404", "error"}

\* what the client hands back for an answer; every client method catches
\* its exceptions and turns them into its negative result
client_result(op, response) ==
  CASE op \in {"delete_series", "delete_movie", "delete_request", "delete_media"} ->
         IF response \in {"200", "404"} THEN "success" ELSE "failure"
    [] op = "remove_missing_files" ->
         IF response = "200" THEN "success" ELSE "failure"
    [] op = "delete_item" -> "success"
    [] OTHER -> IF response = "200" THEN "present" ELSE "absent"

\* DeletionLog(...) as _create_deletion_log fills it from the request
DeletionLog(request, ts) ==
  [media_type |-> request.media_type, tmdb_id |-> request.tmdb_id,
   jellyfin_id |-> request.jellyfin_id, sonarr_id |-> request.sonarr_id,
   radarr_id |-> request.radarr_id,
   shoko_series_id |-> request.shoko_series_id,
   jellyseerr_id |-> request.jellyseerr_id, is_anime |-> request.is_anime,
   status |-> "IN_PROGRESS", initiated_at |-> ts, completed_at |-> None]

\* DeletionSyncEvent(...) as _add_sync_event fills it
DeletionSyncEvent(deletion_log_id, service, status, error_message, ts) ==
  [deletion_log_id |-> deletion_log_id, service |-> service,
   status |-> status, error_message |-> error_message, timestamp |-> ts]

\* DeletionLog.sync_events: the rows of the log, order_by timestamp
sync_events(deletion_log_id) ==
  SortSeq(SelectSeq(deletion_sync_events,
                    LAMBDA e : e.deletion_log_id = deletion_log_id),
          LAMBDA a, b : a.timestamp < b.timestamp)

RECURSIVE service_statuses_first(_)
service_statuses_first(events) ==
  IF events = << >>
  THEN [s \in Services |-> "-"]
  ELSE [service_statuses_first(Tail(events))
          EXCEPT ![events[1].service] = events[1].status]

\* the loop of _update_deletion_status: for each service the status of its
\* last event ("-" for a service without events)
RECURSIVE service_statuses(_)
service_statuses(events) ==
  IF events = << >>
  THEN [s \in Services |-> "-"]
  ELSE LET n == Len(events)
       IN [service_statuses(SubSeq(events, 1, n - 1))
             EXCEPT ![events[n].service] = events[n].status]

_determine_services(request, skip_services) ==
  LET is_tv == request.media_type = "TV"
      is_movie == request.media_type = "MOVIE"
  IN [s \in Services |->
        CASE s = "sonarr" ->
               [applicable |-> is_tv, has_id |-> request.sonarr_id /= None,
                skip |-> "sonarr" \in skip_services]
          [] s = "radarr" ->
               [applicable |-> is_movie, has_id |-> request.radarr_id /= None,
                skip |-> "radarr" \in skip_services]
          [] s = "shoko" ->
               [applicable |-> request.is_anime = "True", has_id |-> TRUE,
                skip |-> "shoko" \in skip_services]
          [] s = "jellyfin" ->
               [applicable |-> TRUE, has_id |-> request.jellyfin_id /= None,
                skip |-> "jellyfin" \in skip_services]
          [] s = "jellyseerr" ->
               [applicable |-> TRUE, has_id |-> request.jellyseerr_id /= None,
                skip |-> "jellyseerr" \in skip_services]]

_get_services_to_sync(services_info) ==
  SelectSeq(SERVICES, LAMBDA s : /\ services_info[s].applicable
                                 /\ services_info[s].has_id
                                 /\ ~services_info[s].skip)

initial_status_skip_first(info) ==
  IF info.skip THEN "SKIPPED"
  ELSE IF ~info.applicable THEN "NOT_APPLICABLE"
  ELSE IF ~info.has_id THEN "NOT_NEEDED"
  ELSE "PENDING"

\* the status of the event delete_request creates for a service at once
initial_status(info) ==
  IF ~info.applicable THEN "NOT_APPLICABLE"
  ELSE IF info.skip THEN "SKIPPED"
  ELSE IF ~info.has_id THEN "NOT_NEEDED"
  ELSE "PENDING"

ordered_services_jellyseerr_first(services) ==
  SelectSeq(<<"jellyseerr", "jellyfin", "shoko", "radarr", "sonarr">>,
            LAMBDA s : \E i \in 1..Len(services) : services[i] = s)

\* the list _sync_external_services builds with its five tests
ordered_services(services) ==
  SelectSeq(<<"sonarr", "radarr", "shoko", "jellyfin", "jellyseerr">>,
            LAMBDA s : \E i \in 1..Len(services) : services[i] = s)

overall_status_optimistic(events) ==
  LET statuses == service_statuses(events)
  IN IF \E s \in Services : statuses[s] \in {"PENDING", "ACKNOWLEDGED"}
     THEN "IN_PROGRESS"
     ELSE "COMPLETE"

\* the status _update_deletion_status computes from the rows of a log
overall_status(events) ==
  LET statuses == service_statuses(events)
      has_failed == \E s \in Services : statuses[s] = "FAILED"
      has_in_progress ==
        \E s \in Services : statuses[s] \in {"PENDING", "ACKNOWLEDGED"}
  IN IF has_in_progress THEN "IN_PROGRESS"
     ELSE IF has_failed THEN "INCOMPLETE"
     ELSE "COMPLETE"

\* _update_deletion_status on the stored row: completed_at is set with
\* every status but IN_PROGRESS
_update_deletion_status(log, events, ts) ==
  LET status == overall_status(events)
  IN IF status = "IN_PROGRESS"
     THEN [log EXCEPT !.status = status]
     ELSE [log EXCEPT !.status = status, !.completed_at = ts]

cascade_orphans(events, rid) == events

\* db.delete(request): the row, and by cascade its events (its episodes are
\* embedded in the row)
delete(db, rid) == [r \in DOMAIN db \ {rid} |-> db[r]]

cascade(events, rid) == SelectSeq(events, LAMBDA e : e.request_id /= rid)

\* the rows appended to deletion_sync_events since they read as events
Appended(events) ==
  [i \in 1..Len(events) |->
     DeletionSyncEvent(events[i].deletion_log_id, events[i].service,
                       events[i].status, events[i].error_message,
                       now + i - 1)]

\* a status kept in one row for each service, written over in place
AddSyncEvents_overwrite(events) ==
  /\ deletion_sync_events' =
       SelectSeq(deletion_sync_events,
                 LAMBDA e : \A i \in 1..Len(events) :
                               ~(/\ events[i].deletion_log_id = e.deletion_log_id
                                 /\ events[i].service = e.service))
         \o Appended(events)
  /\ now' = now + Len(events)

\* the commit of the orchestrator's session: the new sync events, each
\* with the time of its creation
AddSyncEvents(events) ==
  /\ deletion_sync_events' = deletion_sync_events \o Appended(events)
  /\ now' = now + Len(events)

\* delete_request up to its first commit: the lookup, and for a request
\* that exists the snapshot and one event for each service
DeleteRequest(request_id, delete_files, skip_services) ==
  /\ orch.pc = "idle"
  /\ IF request_id \notin DOMAIN requests
     THEN /\ orch' = [orch EXCEPT !.pc = "returned", !.ret = None,
                                  !.request_id = request_id,
                                  !.delete_files = delete_files,
                                  !.skip_services = skip_services]
          /\ UNCHANGED <<deletion_logs, deletion_sync_events, now>>
     ELSE LET request == requests[request_id]
              id == NewId(deletion_logs)
              services_info == _determine_services(request, skip_services)
              services_to_sync == _get_services_to_sync(services_info)
          IN /\ deletion_logs' =
                  [i \in DOMAIN deletion_logs \cup {id} |->
                     IF i = id THEN DeletionLog(request, now)
                     ELSE deletion_logs[i]]
             /\ AddSyncEvents(
                  [i \in 1..Len(SERVICES) |->
                     DeletionSyncEvent(id, SERVICES[i],
                        initial_status(services_info[SERVICES[i]]),
                        None, None)])
             /\ orch' = [pc |-> "phase2", request_id |-> request_id,
                         log |-> id, queue |-> services_to_sync,
                         delete_files |-> delete_files,
                         skip_services |-> skip_services, ret |-> None]
  /\ UNCHANGED <<verifier, tasks, _clients>>
  /\ UNCHANGED <<requests, timeline, last, txn, remote, settings>>

\* RadarrPlugin.handle_webhook for MovieDelete and SonarrPlugin's for
\* SeriesDelete: the lookup by tmdb id (tvdb id), the events carrying no
\* download id; without a request, or with deletion sync off, the handler
\* returns; else delete_request with the sending service skipped
delete_webhook(service, media_id) ==
  IF service = "radarr"
  THEN find_by_any(requests, media_id, None, None, NoHash)
  ELSE find_by_any(requests, None, media_id, None, NoHash)

DeleteWebhook(service, media_id, delete_files) ==
  LET request == delete_webhook(service, media_id)
  IN /\ orch.pc = "idle"
     /\ IF request \in {None, Raise} \/ ~settings.ENABLE_DELETION_SYNC
        THEN /\ last' = NoCall(IF service = "radarr" THEN "MovieDelete"
                               ELSE "SeriesDelete", request)
             /\ UNCHANGED <<requests, timeline, now, txn>>
             /\ UNCHANGED del_vars
             /\ UNCHANGED bg_vars
        ELSE DeleteRequest(request, delete_files, {service})

\* Phase 2: db.delete(request) and commit
HardDelete ==
  /\ orch.pc = "phase2"
  /\ requests' = delete(requests, orch.request_id)
  /\ timeline' = cascade(timeline, orch.request_id)
  /\ orch' = [orch EXCEPT !.pc = "phase3",
                          !.queue = IF settings.ENABLE_DELETION_SYNC
                                    THEN ordered_services(orch.queue)
                                    ELSE orch.queue]
  /\ UNCHANGED <<verifier, tasks, _clients>>
  /\ UNCHANGED <<now, last, txn, deletion_logs, deletion_sync_events,
                 remote, settings>>

\* _sync_service up to its first commit: the ACKNOWLEDGED event
Acknowledge ==
  /\ orch.pc = "phase3"
  /\ settings.ENABLE_DELETION_SYNC
  /\ orch.queue /= << >>
  /\ AddSyncEvents(<<DeletionSyncEvent(orch.log, Head(orch.queue),
                                       "ACKNOWLEDGED", None, None)>>)
  /\ orch' = [orch EXCEPT !.pc = "call"]
  /\ UNCHANGED <<verifier, tasks, _clients>>
  /\ UNCHANGED <<requests, timeline, last, txn, deletion_logs, remote,
                 settings>>

\* one client call: the service's response and what the client returned
Answer(service, op, response) ==
  [service |-> service, op |-> op, response |-> response,
   outcome |-> client_result(op, response)]

\* the calls _sync_service makes for a service, given the responses: to
\* the service's delete, and for jellyseerr to the lookup of the media
\* entry and to its delete
calls(log, service, delete_files, response, lookup, media) ==
  CASE service = "sonarr" /\ log.sonarr_id /= None ->
         <<Answer(service, "delete_series", response)>>
    [] service = "radarr" /\ log.radarr_id /= None ->
         <<Answer(service, "delete_movie", response)>>
    [] service = "shoko" /\ log.is_anime = "True" ->
         IF delete_files
         THEN <<Answer(service, "remove_missing_files", response)>>
         ELSE << >>
    [] service = "jellyfin" /\ log.jellyfin_id /= None ->
         IF delete_files
         THEN <<Answer(service, "delete_item", response)>>
         ELSE << >>
    [] service = "jellyseerr" ->
         (IF log.jellyseerr_id /= None
          THEN <<Answer(service, "delete_request", response)>>
          ELSE << >>)
         \o <<Answer(service, "get_media_id_by_tmdb", lookup)>>
         \o (IF client_result("get_media_id_by_tmdb", lookup) = "present"
             THEN <<Answer(service, "delete_media", media)>>
             ELSE << >>)
    [] OTHER -> << >>

result_unchecked(log, service, delete_files, answers) ==
  IF /\ ~delete_files
     /\ \/ service = "shoko" /\ log.is_anime = "True"
        \/ service = "jellyfin" /\ log.jellyfin_id /= None
  THEN "SKIPPED"
  ELSE "CONFIRMED"

\* the status _sync_service records after the calls: SKIPPED where files
\* are kept, CONFIRMED when success is true, FAILED when it is false or an
\* exception was caught
result(log, service, delete_files, answers) ==
  IF /\ ~delete_files
     /\ \/ service = "shoko" /\ log.is_anime = "True"
        \/ service = "jellyfin" /\ log.jellyfin_id /= None
  THEN "SKIPPED"
  ELSE IF \A i \in 1..Len(answers) :
             answers[i].outcome \notin {"failure", "raises"}
  THEN "CONFIRMED"
  ELSE "FAILED"

\* the error_message of the FAILED event: "Exception: ..." for a caught
\* exception, otherwise the messages of the calls, which name the failure
error_detail(answers) ==
  IF \E i \in 1..Len(answers) : answers[i].outcome = "raises"
  THEN <<"Exception">>
  ELSE [i \in 1..Len(answers) |->
          IF answers[i].outcome = "failure"
          THEN <<answers[i].op, answers[i].response>>
          ELSE << >>]

\* _sync_service from the client call to its last commit
_sync_service(service, response, lookup, media) ==
  LET log == deletion_logs[orch.log]
      answers == calls(log, service, orch.delete_files, response,
                       lookup, media)
      status == result(log, service, orch.delete_files, answers)
  IN /\ remote' = remote \o answers
     /\ AddSyncEvents(<<DeletionSyncEvent(orch.log, service, status,
                          IF status = "FAILED" THEN error_detail(answers)
                          ELSE None, None)>>)

SyncService(response, lookup, media) ==
  /\ orch.pc = "call"
  /\ _sync_service(Head(orch.queue), response, lookup, media)
  /\ orch' = [orch EXCEPT !.pc = "phase3", !.queue = Tail(orch.queue)]
  /\ UNCHANGED <<verifier, tasks, _clients>>
  /\ UNCHANGED <<requests, timeline, last, txn, deletion_logs, settings>>

\* _check_completion after the loop, then the return of the log
CheckCompletion ==
  /\ orch.pc = "phase3"
  /\ settings.ENABLE_DELETION_SYNC
  /\ orch.queue = << >>
  /\ deletion_logs' =
       [deletion_logs EXCEPT ![orch.log] =
          _update_deletion_status(@, sync_events(orch.log), now)]
  /\ orch' = [orch EXCEPT !.pc = "returned", !.ret = orch.log]
  /\ UNCHANGED <<verifier, tasks, _clients>>
  /\ UNCHANGED <<requests, timeline, now, last, txn, deletion_sync_events,
                 remote, settings>>

\* ENABLE_DELETION_SYNC off: the services to sync are marked SKIPPED, the
\* status is computed and the log returned
SyncDisabled ==
  LET skipped == [i \in 1..Len(orch.queue) |->
                    DeletionSyncEvent(orch.log, orch.queue[i], "SKIPPED",
                                      None, None)]
  IN /\ orch.pc = "phase3"
     /\ ~settings.ENABLE_DELETION_SYNC
     /\ AddSyncEvents(skipped)
     /\ deletion_logs' =
          [deletion_logs EXCEPT ![orch.log] =
             _update_deletion_status(
               @, sync_events(orch.log) \o Appended(skipped),
               now + Len(skipped))]
     /\ orch' = [orch EXCEPT !.pc = "returned", !.ret = orch.log,
                             !.queue = << >>]
     /\ UNCHANGED <<verifier, tasks, _clients>>
     /\ UNCHANGED <<requests, timeline, last, txn, remote, settings>>

\* --------------------------------------------------- deletion verifier
MAX_RETRIES == 3

services_to_verify_every(events) ==
  {events[i].service : i \in 1..Len(events)}

\* the services of a log with a CONFIRMED event
services_to_verify(events) ==
  {events[i].service : i \in {j \in 1..Len(events) :
                                events[j].status = "CONFIRMED"}}

\* the query _verify_service makes for a service, if it makes one
queries(log, service, response) ==
  CASE service = "sonarr" /\ log.sonarr_id /= None ->
         <<Answer(service, "get_series", response)>>
    [] service = "radarr" /\ log.radarr_id /= None ->
         <<Answer(service, "get_movie", response)>>
    [] service = "jellyfin" /\ log.jellyfin_id /= None ->
         <<Answer(service, "get_item", response)>>
    [] service = "jellyseerr" /\ log.jellyseerr_id /= None ->
         <<Answer(service, "get_request", response)>>
    [] OTHER -> << >>

\* still_exists after the query: the client returned an item
still_exists(answers) ==
  \E i \in 1..Len(answers) : answers[i].outcome = "present"

\* the error_message of the verifier's FAILED event
verify_error(answers) == "Item still exists in service"

\* _verify_service: the query, then a FAILED or a VERIFIED event, committed
_verify_service(deletion_log_id, service, response) ==
  LET answers == queries(deletion_logs[deletion_log_id], service, response)
  IN /\ remote' = remote \o answers
     /\ AddSyncEvents(<<DeletionSyncEvent(deletion_log_id, service,
                          IF still_exists(answers) THEN "FAILED"
                          ELSE "VERIFIED",
                          IF still_exists(answers) THEN verify_error(answers)
                          ELSE None, None)>>)

\* the states in which DeletionVerifier._check_completion takes a service
\* as done
terminal_states == {"VERIFIED", "FAILED", "SKIPPED", "NOT_NEEDED"}

\* DeletionVerifier._check_completion on the stored row
_check_completion(log, events, ts) ==
  LET statuses == service_statuses(events)
      all_done == \A s \in Services :
                     statuses[s] /= "-" => statuses[s] \in terminal_states
  IN IF all_done /\ log.completed_at = None
     THEN [log EXCEPT !.completed_at = ts]
     ELSE log

\* verify_deletion up to its loop: the log is loaded and the services with
\* a CONFIRMED event collected; a pass starts when the orchestrator has
\* returned the log, or as a retry
VerifyDeletion ==
  /\ \/ verifier.pc = "idle" /\ orch.pc = "returned" /\ orch.ret /= None
     \/ verifier.pc = "retry"
  /\ LET id == orch.ret
         services == services_to_verify(sync_events(id))
     IN verifier' =
          IF services = {}
          THEN [verifier EXCEPT !.pc = "done", !.log = id, !.ret = "True"]
          ELSE [verifier EXCEPT !.pc = "verify", !.log = id,
                                !.todo = services, !.all_verified = TRUE]
  /\ UNCHANGED bg_vars
  /\ UNCHANGED <<requests, timeline, now, last, txn, deletion_logs,
                 deletion_sync_events, remote, settings, orch>>

\* one turn of the loop over services_to_verify, a set: any of the
\* services not yet verified in this pass comes next
VerifyService(service, response) ==
  /\ verifier.pc = "verify"
  /\ service \in verifier.todo
  /\ _verify_service(verifier.log, service, response)
  /\ verifier' =
       [verifier EXCEPT
          !.todo = @ \ {service},
          !.all_verified =
             @ /\ ~still_exists(queries(deletion_logs[verifier.log],
                                        service, response))]
  /\ UNCHANGED bg_vars
  /\ UNCHANGED <<requests, timeline, last, txn, deletion_logs, settings,
                 orch>>

\* Broadcaster.broadcast(event_type, data): Python binds the arguments when
\* the method is called, and a call that does not pass both raises
\* TypeError; a call that passes both puts the message in the queues
broadcast(arguments) ==
  IF Len(arguments) /= 2 THEN "TypeError" ELSE "queued"

\* _broadcast_verification_complete: broadcaster.broadcast({...}), the
\* event in one dict
_broadcast_verification_complete == broadcast(<<"event">>)

VerifyCheck_retry_always ==
  /\ verifier.pc = "verify"
  /\ verifier.todo = {}
  /\ deletion_logs' =
       [deletion_logs EXCEPT ![verifier.log] =
          _check_completion(@, sync_events(verifier.log), now)]
  /\ verifier' =
       IF ~verifier.all_verified
       THEN [verifier EXCEPT !.pc = "retry", !.retry_count = @ + 1]
       ELSE [verifier EXCEPT !.pc = "done", !.ret = "True"]
  /\ UNCHANGED bg_vars
  /\ UNCHANGED <<requests, timeline, now, last, txn, deletion_sync_events,
                 remote, settings, orch>>

\* the end of a pass: _check_completion and its commit, then the broadcast,
\* whose exception nothing in verify_deletion catches, then the retry or
\* the return
VerifyCheck ==
  /\ verifier.pc = "verify"
  /\ verifier.todo = {}
  /\ deletion_logs' =
       [deletion_logs EXCEPT ![verifier.log] =
          _check_completion(@, sync_events(verifier.log), now)]
  /\ verifier' =
       IF _broadcast_verification_complete = "TypeError"
       THEN [verifier EXCEPT !.pc = "raised", !.ret = "TypeError"]
       ELSE IF ~verifier.all_verified /\ verifier.retry_count < MAX_RETRIES
       THEN [verifier EXCEPT !.pc = "retry", !.retry_count = @ + 1]
       ELSE [verifier EXCEPT !.pc = "done",
               !.ret = IF verifier.all_verified THEN "True" ELSE "False"]
  /\ UNCHANGED bg_vars
  /\ UNCHANGED <<requests, timeline, now, last, txn, deletion_sync_events,
                 remote, settings, orch>>

\* ------------------------------------------------------ background loops
\* "while True: try: <tick> except Exception as e: logger.error(...)" followed
\* by "await asyncio.sleep(interval)": the except clause takes every
\* exception a tick raises, and the loop goes on to its sleep
except_none(raised) == raised = "None"

except_Exception(raised) == TRUE

\* the position of a loop after the try statement of one tick
AfterTick(raised, interval) ==
  [pc |-> IF except_Exception(raised) THEN "sleep" ELSE "ended",
   interval |-> interval, caught |-> raised /= "None"]

\* await asyncio.sleep(interval) returns and the while loop starts over
Sleep(l) ==
  /\ tasks[l].pc = "sleep"
  /\ tasks' = [tasks EXCEPT ![l].pc = "tick"]
  /\ UNCHANGED <<requests, timeline, now, last, txn, _clients>>
  /\ UNCHANGED del_vars

\* the rows of a table in ascending id order
RECURSIVE Ascending(_)
Ascending(S) ==
  IF S = {} THEN << >>
  ELSE LET m == Max(S) IN Append(Ascending(S \ {m}), m)

\* the events the session holds when the rows in order were handled
RECURSIVE EventsIn(_, _)
EventsIn(res, order) ==
  IF order = << >> THEN << >>
  ELSE res[Head(order)].events \o EventsIn(res, Tail(order))

\* what qBittorrent answers for the hashes asked (every hash of the model
\* names the same torrent): no torrent, a torrent downloading, a torrent
\* seeding, or no answer at all
Torrents == {"None", "downloading", "uploading", "error"}

is_downloading(torrent) == torrent = "downloading"

is_complete(torrent) == torrent = "uploading"

\* QBittorrentPlugin._update_episode_progress
_update_episode_progress(episode, torrent) ==
  IF episode.state = "GRABBING" /\ is_downloading(torrent)
  THEN [episode EXCEPT !.state = "DOWNLOADING"]
  ELSE IF episode.state = "DOWNLOADING" /\ is_complete(torrent)
  THEN [episode EXCEPT !.state = "DOWNLOADED"]
  ELSE episode

\* the episodes _get_trackable_requests files under a hash
Tracked_episode(episode) ==
  episode.qbit_hash /= NoHash /\ episode.state \in {"GRABBING", "DOWNLOADING"}

\* QBittorrentPlugin._update_request_progress for a movie
_update_request_progress(rid, row, torrent) ==
  IF row.state = "GRABBING" /\ is_downloading(torrent)
  THEN transition(rid, row, "DOWNLOADING", now)
  ELSE IF row.state = "DOWNLOADING" /\ is_complete(torrent)
  THEN transition(rid, row, "DOWNLOADED", now)
  ELSE [ok |-> FALSE, row |-> row, events |-> << >>]

\* QBittorrentPlugin.poll for one tracked request: the episodes of a
\* series follow their torrent and the request follows its episodes
\* (_recalculate_request_state); a movie follows its own torrent
poll_request(rid, row, torrent) ==
  LET episodes == [e \in DOMAIN row.episodes |->
                     IF Tracked_episode(row.episodes[e])
                     THEN _update_episode_progress(row.episodes[e], torrent)
                     ELSE row.episodes[e]]
      updated == [row EXCEPT !.episodes = episodes]
      new_state == calculate_aggregate_state(updated)
  IN IF row.media_type = "TV"
     THEN IF episodes /= row.episodes /\ new_state /= row.state
          THEN transition(rid, updated, new_state, now)
          ELSE [ok |-> FALSE, row |-> updated, events |-> << >>]
     ELSE IF row.qbit_hash /= NoHash
     THEN _update_request_progress(rid, row, torrent)
     ELSE [ok |-> FALSE, row |-> row, events |-> << >>]

\* str.upper() on the characters of the model
UpperChar(c) ==
  CASE c = "a" -> "A"
    [] c = "b" -> "B"
    [] OTHER -> c

Upper(h) == [i \in 1..Len(h) |-> UpperChar(h[i])]

\* QBittorrentPlugin.handle_webhook, the "run on complete" hook: the
\* request whose qbit_hash is the upper-cased hash, else the request of the
\* first episode with it; the episodes of a series with the hash become
\* DOWNLOADED and the series takes its aggregate state, a movie is asked
\* to go to DOWNLOADED
qbittorrent_webhook(torrent_hash) ==
  LET hash_upper == Upper(torrent_hash)
      hash_lower == Lower(torrent_hash)
      by_request ==
        scalar_one_or_none({r \in DOMAIN requests :
                              /\ requests[r].qbit_hash /= NoHash
                              /\ requests[r].qbit_hash = hash_upper})
      by_episode ==
        {r \in DOMAIN requests :
           \E e \in DOMAIN requests[r].episodes :
              requests[r].episodes[e].qbit_hash = hash_upper}
      request == IF by_request /= None THEN by_request
                 ELSE IF by_episode = {} THEN None
                 ELSE CHOOSE r \in by_episode : \A x \in by_episode : r <= x
      row == requests[request]
      done(episode) ==
        IF /\ episode.qbit_hash /= NoHash
           /\ Lower(episode.qbit_hash) = hash_lower
           /\ episode.state \in {"GRABBING", "DOWNLOADING"}
        THEN [episode EXCEPT !.state = "DOWNLOADED"]
        ELSE episode
      updated == [row EXCEPT !.episodes =
                    [e \in DOMAIN row.episodes |-> done(row.episodes[e])]]
  IN IF torrent_hash = NoHash THEN Unchanged(NoCall("qbittorrent", None))
     ELSE IF request \in {None, Raise}
     THEN Unchanged(NoCall("qbittorrent", request))
     ELSE IF row.media_type = "TV" /\ row.episodes /= NoEpisodes
     THEN Transitioned("qbittorrent", request, updated,
                       calculate_aggregate_state(updated))
     ELSE Transitioned("qbittorrent", request, row, "DOWNLOADED")

\* the hashes poll asks qBittorrent about
poll_hashes(db, requests_) ==
  UNION {{Lower(db[r].episodes[e].qbit_hash) :
            e \in {y \in DOMAIN db[r].episodes :
                      Tracked_episode(db[r].episodes[y])}} :
           r \in {x \in requests_ : db[x].media_type = "TV"}}
  \cup {Lower(db[r].qbit_hash) :
          r \in {x \in requests_ : db[x].qbit_hash /= NoHash
                                   /\ (db[x].media_type = "MOVIE"
                                       \/ db[x].episodes = NoEpisodes)}}

\* QBittorrentPlugin.poll; the rows it leaves in the session are committed
\* by the loop
poll(torrent) ==
  LET requests_ == {r \in DOMAIN requests :
                      requests[r].state \in {"GRABBING", "DOWNLOADING"}}
      res == [r \in DOMAIN requests |->
                IF r \in requests_
                THEN poll_request(r, requests[r], torrent)
                ELSE [ok |-> FALSE, row |-> requests[r], events |-> << >>]]
  IN IF requests_ = {} \/ poll_hashes(requests, requests_) = {}
        \/ torrent \in {"None", "error"}
     THEN Unchanged(NoCall("poll", None))
     ELSE Outcome([r \in DOMAIN requests |->
                     flush(requests[r], res[r].row, now)],
                  EventsIn(res, Ascending(DOMAIN requests)),
                  NoCall("poll", None))

POLL_FAST == 3
POLL_SLOW == 15

get_adaptive_poll_interval_downloading(db) ==
  IF \E r \in DOMAIN db : db[r].state \in {"DOWNLOADING"}
  THEN POLL_FAST ELSE POLL_SLOW

\* QBittorrentPlugin.get_adaptive_poll_interval
get_adaptive_poll_interval(db) ==
  LET active_count ==
        Cardinality({r \in DOMAIN db :
                       db[r].state \in {"GRABBING", "DOWNLOADING"}})
  IN IF active_count > 0 THEN POLL_FAST ELSE POLL_SLOW

\* where one tick of polling_loop raises: nowhere, on opening the session
\* (nothing has been polled), inside plugin.poll or its commit (the inner
\* handler rolls back and the interval is still computed), or in
\* get_adaptive_poll_interval (the poll is committed)
PollRaises == {"None", "async_session", "poll", "get_adaptive_poll_interval"}

\* one pass of the body of polling_loop
PollTick(torrent, raised) ==
  LET out == IF raised \in {"async_session", "poll"}
             THEN Unchanged(NoCall("poll", None))
             ELSE poll(torrent)
      interval == IF raised \in {"async_session", "get_adaptive_poll_interval"}
                  THEN 30
                  ELSE get_adaptive_poll_interval(out.db)
  IN /\ tasks["polling_loop"].pc = "tick"
     /\ Store(out, MaxFlow)
     /\ tasks' = [tasks EXCEPT !["polling_loop"] = AfterTick(raised, interval)]
     /\ UNCHANGED <<txn, _clients>>
     /\ UNCHANGED del_vars

\* get_state_timeouts, in the order check_timeouts walks it
state_timeouts ==
  <<"DOWNLOADING", "IMPORTING", "ANIME_MATCHING", "DOWNLOADED", "GRABBING",
    "APPROVED">>

\* the rows check_timeouts handles, in its order: state by state, the
\* rows of one state by id
RECURSIVE StuckOrder(_, _, _)
StuckOrder(db, stuck, states) ==
  IF states = << >> THEN << >>
  ELSE Ascending({r \in stuck : db[r].state = Head(states)})
         \o StuckOrder(db, stuck, Tail(states))

\* check_timeouts(db); stuck holds the rows whose state_changed_at lies
\* further back than the threshold of their state
check_timeouts(stuck) ==
  LET res == [r \in DOMAIN requests |->
                IF r \in stuck
                THEN transition(r, requests[r], "TIMEOUT", now)
                ELSE [ok |-> FALSE, row |-> requests[r], events |-> << >>]]
  IN Outcome([r \in DOMAIN requests |->
                flush(requests[r], res[r].row, now)],
             EventsIn(res, StuckOrder(requests, stuck, state_timeouts)),
             NoCall("check_timeouts", None))

\* the rows the queries of check_timeouts can select
Timeoutable ==
  {r \in DOMAIN requests :
     \E i \in DOMAIN state_timeouts : requests[r].state = state_timeouts[i]}

\* one pass of the body of timeout_checker_loop; an exception leaves the
\* session uncommitted
TimeoutTick(stuck, raised) ==
  LET out == IF raised /= "None"
             THEN Unchanged(NoCall("check_timeouts", None))
             ELSE check_timeouts(stuck)
  IN /\ tasks["timeout_checker_loop"].pc = "tick"
     /\ stuck \subseteq Timeoutable
     /\ Store(out, MaxFlow)
     /\ tasks' = [tasks EXCEPT
                    !["timeout_checker_loop"] = AfterTick(raised, 300)]
     /\ UNCHANGED <<txn, _clients>>
     /\ UNCHANGED del_vars

\* verify_request: item is the playable item the id lookups of Jellyfin
\* return and search the one its title search returns (None for nothing);
\* the title search is tried for anime only
verify_request(row, item, search) ==
  LET has_id == IF row.media_type = "MOVIE" THEN row.tmdb_id /= None
                ELSE row.tvdb_id /= None \/ row.tmdb_id /= None
  IN IF has_id /\ item /= None THEN item
     ELSE IF row.is_anime = "True" THEN search
     ELSE None

\* _mark_movie_available / _mark_tv_available
_mark_available(rid, row, item) ==
  LET marked == [row EXCEPT
                   !.jellyfin_id = item,
                   !.episodes = [e \in DOMAIN @ |->
                                   [@[e] EXCEPT !.state = "AVAILABLE"]]]
  IN transition(rid, marked, "AVAILABLE", now)

\* check_stuck_requests_fallback for one stuck request
fallback_request(rid, row, item, search) ==
  LET found == verify_request(row, item, search)
  IN IF found /= None THEN _mark_available(rid, row, found)
     ELSE IF row.state = "DOWNLOADED"
     THEN transition(rid, row,
                     IF row.is_anime = "True" THEN "ANIME_MATCHING"
                     ELSE "IMPORTING", now)
     ELSE IF row.is_anime = "True" /\ row.state = "IMPORTING"
     THEN transition(rid, row, "ANIME_MATCHING", now)
     ELSE [ok |-> FALSE, row |-> row, events |-> << >>]

\* the rows the query of check_stuck_requests_fallback can select
Recoverable ==
  {r \in DOMAIN requests :
     requests[r].state \in {"DOWNLOADED", "IMPORTING", "ANIME_MATCHING"}}

\* check_stuck_requests_fallback(db); stuck_requests holds the rows whose
\* updated_at lies more than STUCK_THRESHOLD_MINUTES back
check_stuck_requests_fallback(stuck_requests, item, search) ==
  LET res == [r \in DOMAIN requests |->
                IF r \in stuck_requests
                THEN fallback_request(r, requests[r], item, search)
                ELSE [ok |-> FALSE, row |-> requests[r], events |-> << >>]]
  IN Outcome([r \in DOMAIN requests |->
                flush(requests[r], res[r].row, now)],
             EventsIn(res, Ascending(stuck_requests)),
             NoCall("check_stuck_requests_fallback", None))

\* one pass of the body of jellyfin_fallback_loop; an exception leaves
\* the session uncommitted
FallbackTick(stuck_requests, item, search, raised) ==
  LET out == IF raised /= "None"
             THEN Unchanged(NoCall("check_stuck_requests_fallback", None))
             ELSE check_stuck_requests_fallback(stuck_requests, item, search)
  IN /\ tasks["jellyfin_fallback_loop"].pc = "tick"
     /\ stuck_requests \subseteq Recoverable
     /\ Store(out, MaxFlow)
     /\ tasks' = [tasks EXCEPT
                    !["jellyfin_fallback_loop"] = AfterTick(raised, 30)]
     /\ UNCHANGED <<txn, _clients>>
     /\ UNCHANGED del_vars

\* ------------------------------------------------------------ broadcaster
\* asyncio.Queue() as subscribe builds it: maxsize defaults to 0, which
\* asyncio takes as "no limit"
maxsize == 0

\* Queue.full()
full(queue) == maxsize > 0 /\ Len(queue) >= maxsize

\* queue.put_nowait(message) inside "try: ... except asyncio.QueueFull:
\* logger.warning(...)": a full queue skips the message
put_nowait(queue, message) ==
  IF full(queue) THEN queue ELSE Append(queue, message)

\* Broadcaster.broadcast(event_type, data): returns at once without
\* clients, else puts the message in the queue of every client
Broadcaster_broadcast(clients, event_type, data) ==
  IF clients = << >> THEN clients
  ELSE [i \in DOMAIN clients |->
          put_nowait(clients[i], [event |-> event_type, data |-> data])]

\* Broadcaster.subscribe up to its loop: a new queue joins _clients
Subscribe ==
  /\ Len(_clients) < MaxClients
  /\ _clients' = Append(_clients, << >>)
  /\ UNCHANGED <<requests, timeline, now, last, txn, tasks>>
  /\ UNCHANGED del_vars

\* the loop of subscribe: queue.get() hands the oldest message to the SSE
\* endpoint
Deliver(i) ==
  /\ i \in DOMAIN _clients
  /\ _clients[i] /= << >>
  /\ _clients' = [_clients EXCEPT ![i] = Tail(@)]
  /\ UNCHANGED <<requests, timeline, now, last, txn, tasks>>
  /\ UNCHANGED del_vars

\* the finally clause of subscribe: self._clients.remove(queue)
Disconnect(i) ==
  /\ i \in DOMAIN _clients
  /\ _clients' = [j \in 1..(Len(_clients) - 1) |->
                    IF j < i THEN _clients[j] ELSE _clients[j + 1]]
  /\ UNCHANGED <<requests, timeline, now, last, txn, tasks>>
  /\ UNCHANGED del_vars

\* a producer awaits broadcaster.broadcast(event_type, data)
Broadcast(event_type, data) ==
  /\ \A i \in DOMAIN _clients : Len(_clients[i]) < MaxEvents
  /\ _clients' = Broadcaster_broadcast(_clients, event_type, data)
  /\ UNCHANGED <<requests, timeline, now, last, txn, tasks>>
  /\ UNCHANGED del_vars

\* ------------------------------------------- sessions and notification
\* A caller runs a handler on its own session, and what the handler wrote
\* stays in the session until db.commit().  txn[1] is that session: out is
\* what it holds, steps what the caller still does after the handler, and
\* notify the requests it hands to broadcaster.broadcast_update.
Session(pc, steps, out, notify) ==
  [pc |-> pc, steps |-> steps, out |-> out, notify |-> notify,
   committed |-> FALSE]

\* the rows an outcome added or changed, by id
Updated(out) ==
  Ascending({r \in DOMAIN out.db :
               r \notin DOMAIN requests \/ out.db[r] /= requests[r]})

handle_webhook_broadcast_first == <<"broadcast_update", "commit">>

\* the try block of handle_webhook after plugin.handle_webhook has
\* returned: db.commit(), then broadcast_update if a request came back
handle_webhook == <<"commit", "broadcast_update">>

\* the inner try block of polling_loop after plugin.poll has returned:
\* db.commit(), then broadcast_update for each updated request
polling_loop == <<"commit", "broadcast_update">>

\* the end of check_timeouts: "if timed_out:" db.commit(), then
\* broadcast_update for each request timed out
check_timeouts_commit(timed_out) ==
  IF timed_out /= << >> THEN <<"commit", "broadcast_update">> ELSE << >>

\* a handler has run on a new session; one that raised leaves the caller in
\* its except clause, whatever the session holds by then
Handled(steps, out, notify, raised) ==
  /\ txn[1].pc = "idle"
  /\ txn' = [txn EXCEPT ![1] =
               Session(IF raised THEN "raised" ELSE "run", steps, out,
                       notify)]
  /\ UNCHANGED <<requests, timeline, now, last>>
  /\ UNCHANGED del_vars
  /\ UNCHANGED bg_vars

\* handle_webhook (routers/webhooks.py) up to the return of the plugin
HandleWebhook(out, raised) ==
  Handled(handle_webhook, out,
          IF out.last.ret /= None THEN <<out.last.ret>> ELSE << >>, raised)

\* polling_loop up to the return of plugin.poll
HandlePoll(torrent, raised) ==
  LET out == poll(torrent)
  IN Handled(polling_loop, out, Updated(out), raised)

\* timeout_checker_loop up to the end of the loops of check_timeouts
HandleTimeouts(stuck, raised) ==
  LET out == check_timeouts(stuck)
  IN /\ stuck \subseteq Timeoutable
     /\ Handled(check_timeouts_commit(Updated(out)), out, Updated(out),
                raised)

\* await db.commit()
SessionCommit ==
  /\ txn[1].pc = "run"
  /\ txn[1].steps /= << >>
  /\ Head(txn[1].steps) = "commit"
  /\ Store(txn[1].out, MaxFlow)
  /\ txn' = [txn EXCEPT ![1].steps = Tail(@), ![1].committed = TRUE]
  /\ UNCHANGED del_vars
  /\ UNCHANGED bg_vars

\* await broadcaster.broadcast_update(request) for the next request to
\* notify of, the message built from the object the session holds
SessionBroadcast ==
  /\ txn[1].pc = "run"
  /\ txn[1].steps /= << >>
  /\ Head(txn[1].steps) = "broadcast_update"
  /\ \A i \in DOMAIN _clients : Len(_clients[i]) < MaxEvents
  /\ IF txn[1].notify = << >>
     THEN /\ txn' = [txn EXCEPT ![1].steps = Tail(@)]
          /\ UNCHANGED _clients
     ELSE LET r == Head(txn[1].notify)
          IN /\ _clients' =
                  Broadcaster_broadcast(_clients, "update",
                     [request_id |-> r, state |-> txn[1].out.db[r].state])
             /\ txn' = [txn EXCEPT ![1].notify = Tail(@)]
  /\ UNCHANGED <<requests, timeline, now, last, tasks>>
  /\ UNCHANGED del_vars

\* the caller is through: the session closes, and what it still holds
\* uncommitted is gone
SessionClose ==
  /\ txn[1].pc = "run"
  /\ txn[1].steps = << >>
  /\ txn' = [txn EXCEPT ![1] = Idle]
  /\ UNCHANGED <<requests, timeline, now, last>>
  /\ UNCHANGED del_vars
  /\ UNCHANGED bg_vars

\* "except Exception": await db.rollback(), and no broadcast
SessionRollback ==
  /\ txn[1].pc = "raised"
  /\ txn' = [txn EXCEPT ![1] = Idle]
  /\ UNCHANGED <<requests, timeline, now, last>>
  /\ UNCHANGED del_vars
  /\ UNCHANGED bg_vars

\* --------------------------------------------------------- specifications
\* the media the request manager knows: movie m carries tmdb id m, series
\* m carries tmdb id m and tvdb id m
TmdbOf(media_type, m) == m
TvdbOf(media_type, m) == IF media_type = "TV" THEN m ELSE None

Hashes == HashInputs \cup {NoHash}

Jellyseerr ==
  \E n \in NotificationTypes, mt \in MediaType, m \in Ids, j \in Ids,
     loaded \in BOOLEAN :
     JellyseerrWebhook(n, mt, j, TmdbOf(mt, m), TvdbOf(mt, m), loaded)

Retry == \E rid \in 1..MaxReq : RetryRequest(rid)

Sonarr ==
  \E ev \in {"Grab", "Download"}, v \in Ids, h \in Hashes,
     eps \in EpisodeLists, n \in 0..MaxEps, a \in BOOLEAN :
     /\ n <= Cardinality(eps)
     /\ (ev = "Grab" => n = 0)
     /\ SonarrWebhook(ev, v, h, eps, n, a)

Shoko ==
  \E rid \in 1..MaxReq, e \in 1..MaxEps, x \in BOOLEAN :
     ShokoFileMatched(rid, e, x)

\* the events whose handlers race: approval, grab, library add, failure
RacingTargets == {"APPROVED", "GRABBING", "AVAILABLE", "FAILED"}

Load ==
  \E t \in Txns, rid \in 1..MaxReq, target \in RacingTargets :
     WebhookLoad(t, rid, target)

Finish == \E t \in Txns : WebhookCommit(t)

\* requests, movies and the correlator: the request manager approves
\* every request on creation, the media manager grabs and imports, the
\* media server reports the item.  The request manager files media m
\* under request id m.
AutoApproved == {"MEDIA_AUTO_APPROVED", "MEDIA_AVAILABLE", "MEDIA_FAILED"}

Requests ==
  \E n \in AutoApproved, mt \in MediaType, m \in Ids, loaded \in BOOLEAN :
     JellyseerrWebhook(n, mt, m, TmdbOf(mt, m), TvdbOf(mt, m), loaded)

RadarrEvents ==
  \E ev \in {"Grab", "Download"}, t \in Ids, h \in Hashes :
     RadarrWebhook(ev, t, h, FALSE)

JellyfinItems ==
  \E mt \in MediaType, m \in Ids :
     JellyfinWebhook(TmdbOf(mt, m), TvdbOf(mt, m))

Next == Requests \/ Retry \/ RadarrEvents \/ JellyfinItems

Spec == Init /\ [][Next]_vars

\* the state machine under every target, for movie m requested as request m
MovieRequests ==
  \E n \in NotificationTypes, m \in Ids, loaded \in BOOLEAN :
     JellyseerrWebhook(n, "MOVIE", m, m, None, loaded)

MovieLibrary == \E m \in Ids : LibrarySync("MOVIE", m, None)

AnyTarget ==
  \E rid \in 1..MaxReq, target \in RequestState : Transition(rid, target)

NextSM == MovieRequests \/ MovieLibrary \/ Retry \/ AnyTarget

SpecSM == Init /\ [][NextSM]_vars

\* series and their episodes: the request manager creates and approves
\* series m under tmdb id m and tvdb id m, the series manager grabs and
\* imports episodes, the anime matcher reports files
SeriesRequests ==
  \E n \in {"MEDIA_PENDING", "MEDIA_AUTO_APPROVED", "MEDIA_APPROVED"},
     m \in Ids, j \in Ids :
     JellyseerrWebhook(n, "TV", j, TmdbOf("TV", m), TvdbOf("TV", m), TRUE)

NextTV == SeriesRequests \/ Sonarr \/ Shoko

SpecTV == Init /\ [][NextTV]_vars

\* handlers interleaving between their load and their commit
NextConc == Jellyseerr \/ Load \/ Finish

SpecConc == Init /\ [][NextConc]_vars

\* the aggregate calculator on its own: a series (or a movie, which has no
\* episodes) with any stored state and any list of episode states
EpisodeRows ==
  UNION {[1..n -> {Episode(st, NoHash, FALSE) : st \in EpisodeState}] :
           n \in 0..MaxEps}

AggregateInit ==
  /\ \E mt \in MediaType, st \in RequestState, eps \in EpisodeRows :
        /\ mt = "MOVIE" => eps = << >>
        /\ requests = <<[MediaRequest(mt, st, None, 1, None, 1)
                           EXCEPT !.episodes = eps]>>
  /\ timeline = << >>
  /\ now = 2
  /\ last = NoCall("init", None)
  /\ txn = [t \in Txns |-> Idle]
  /\ NoDeletion
  /\ NoBackground

\* calculate_aggregate_state(request); the record's target is the result
Aggregate ==
  /\ last.op = "init"
  /\ last' = Last("aggregate", None, 1, FALSE, requests[1].state,
                  calculate_aggregate_state(requests[1]), FALSE)
  /\ UNCHANGED <<requests, timeline, now, txn>>
  /\ UNCHANGED del_vars
  /\ UNCHANGED bg_vars

NextAgg == Aggregate

SpecAgg == AggregateInit /\ [][NextAgg]_vars

\* one lifecycle at length: a movie is requested, then any caller asks
\* the state machine for any target
FlowRequest ==
  \E m \in Ids :
     /\ requests = << >>
     /\ WriteUntil(jellyseerr_webhook("MEDIA_PENDING", "MOVIE", m, m, None,
                                      TRUE), MaxFlow)
     /\ UNCHANGED txn

FlowTransition ==
  \E rid \in 1..MaxReq, target \in RequestState :
     /\ rid \in DOMAIN requests
     /\ WriteUntil(Transitioned("transition", rid, requests[rid], target),
                   MaxFlow)
     /\ UNCHANGED txn

NextFlow == FlowRequest \/ FlowTransition

SpecFlow == Init /\ [][NextFlow]_vars

\* the deletion orchestrator on its own: request 1 is any tracked movie or
\* series with any of the services' ids, request 2 a movie no service
\* knows yet, and a delete is asked for either or for a request that does
\* not exist
IdOrNone == {None, 1}

SkipLists == {{}, {"sonarr"}, {"radarr"}, {"shoko", "jellyfin", "jellyseerr"}}

Tracked(media_type, is_anime, sonarr_id, radarr_id, shoko_series_id, jellyfin_id, jellyseerr_id) ==
  [MediaRequest(media_type, "AVAILABLE", jellyseerr_id, 1, None, 1)
     EXCEPT !.is_anime = is_anime, !.sonarr_id = sonarr_id,
            !.radarr_id = radarr_id, !.shoko_series_id = shoko_series_id,
            !.jellyfin_id = jellyfin_id,
            !.episodes = IF media_type = "TV"
                         THEN <<Episode("AVAILABLE", NoHash, TRUE)>>
                         ELSE NoEpisodes]

DeletionInit ==
  /\ \E media_type \in MediaType, is_anime \in {"None", "True"},
        sonarr_id \in IdOrNone, radarr_id \in IdOrNone,
        shoko_series_id \in IdOrNone, jellyfin_id \in IdOrNone,
        jellyseerr_id \in IdOrNone :
        requests = <<Tracked(media_type, is_anime, sonarr_id, radarr_id,
                             shoko_series_id, jellyfin_id, jellyseerr_id),
                     MediaRequest("MOVIE", "REQUESTED", None, 2, None, 2)>>
  /\ timeline = <<TimelineEvent(1, "AVAILABLE", "StateChange", 1),
                  TimelineEvent(2, "REQUESTED", "StateChange", 2)>>
  /\ now = 3
  /\ last = NoCall("init", None)
  /\ txn = [t \in Txns |-> Idle]
  /\ deletion_logs = << >>
  /\ deletion_sync_events = << >>
  /\ remote = << >>
  /\ settings \in [ENABLE_DELETION_SYNC : BOOLEAN]
  /\ orch = NotRunning
  /\ verifier = NotVerifying
  /\ NoBackground

Delete ==
  \E request_id \in 1..(MaxReq + 1), delete_files \in BOOLEAN,
     skip_services \in SkipLists :
     DeleteRequest(request_id, delete_files, skip_services)

Sync ==
  \E response \in Responses, lookup \in Responses, media \in Responses :
     SyncService(response, lookup, media)

NextDel ==
  \/ Delete
  \/ HardDelete
  \/ Acknowledge
  \/ Sync
  \/ CheckCompletion
  \/ SyncDisabled

SpecDel == DeletionInit /\ [][NextDel]_vars

\* delete_request is one coroutine that the event loop resumes after every
\* await until it has returned: a step of it that is enabled is taken.
\* a delete of a request that is not anime
NotAnimeInit ==
  /\ DeletionInit
  /\ requests[1].is_anime = "None"
  /\ requests[1].shoko_series_id = None

LiveDel == NotAnimeInit /\ [][NextDel]_vars /\ WF_vars(NextDel)

\* a delete made in a media manager: the movie manager knows movie 1 and
\* the series manager series 1, a request for it is in any state of its
\* lifecycle, deletion sync is on, and the manager reports the delete
ManagerDeleteInit ==
  /\ \E mt \in MediaType, st \in RequestState :
        requests = <<[MediaRequest(mt, st, 1, 1, TvdbOf(mt, 1), 1)
                        EXCEPT !.radarr_id = IF mt = "MOVIE" THEN 1 ELSE None,
                               !.sonarr_id = IF mt = "TV" THEN 1 ELSE None]>>
  /\ timeline = <<TimelineEvent(1, "REQUESTED", "event", 1)>>
  /\ now = 2
  /\ last = NoCall("init", None)
  /\ txn = [t \in Txns |-> Idle]
  /\ deletion_logs = << >>
  /\ deletion_sync_events = << >>
  /\ remote = << >>
  /\ settings = [ENABLE_DELETION_SYNC |-> TRUE]
  /\ orch = NotRunning
  /\ verifier = NotVerifying
  /\ NoBackground

ManagerDeletes ==
  \E service \in {"radarr", "sonarr"}, delete_files \in BOOLEAN :
     DeleteWebhook(service, 1, delete_files)

NextManagerDelete ==
  ManagerDeletes \/ HardDelete \/ Acknowledge \/ Sync \/ CheckCompletion

SpecManagerDelete == ManagerDeleteInit /\ [][NextManagerDelete]_vars

\* orchestration followed by verification: a delete as under SpecDel, the
\* request manager knowing no media entry of the request, and then
\* verify_deletion on the log that delete returned
SyncTracked ==
  \E response \in Responses : SyncService(response, "404", "404")

Verify ==
  \E service \in Services, response \in Responses :
     VerifyService(service, response)

NextVer ==
  \/ Delete
  \/ HardDelete
  \/ Acknowledge
  \/ SyncTracked
  \/ CheckCompletion
  \/ SyncDisabled
  \/ VerifyDeletion
  \/ Verify
  \/ VerifyCheck

SpecVer == DeletionInit /\ [][NextVer]_vars

\* verification on its own terms: the delete of a request that is not
\* anime and that the media server does not know, deletion sync being on,
\* and then verify_deletion on the log returned
RetryInit ==
  /\ NotAnimeInit
  /\ requests[1].jellyfin_id = None
  /\ settings.ENABLE_DELETION_SYNC

NextRetry ==
  \/ Delete
  \/ HardDelete
  \/ Acknowledge
  \/ SyncTracked
  \/ CheckCompletion
  \/ VerifyDeletion
  \/ Verify
  \/ VerifyCheck

SpecRetry == RetryInit /\ [][NextRetry]_vars

\* one movie lifecycle with the download poll: the request manager
\* approves movie m on creation, the movie manager grabs and imports it,
\* anime or not, and polling_loop ticks and sleeps
LoopRequests ==
  \E m \in Ids :
     /\ requests = << >>
     /\ WriteUntil(jellyseerr_webhook("MEDIA_AUTO_APPROVED", "MOVIE", m, m,
                                      None, TRUE), MaxFlow)
     /\ UNCHANGED txn

LoopRadarr ==
  \E ev \in {"Grab", "Download"}, t \in Ids, h \in Hashes, anime \in BOOLEAN :
     /\ WriteUntil(radarr_webhook(ev, t, h, anime), MaxFlow)
     /\ UNCHANGED txn

Poll == \E torrent \in Torrents, raised \in PollRaises : PollTick(torrent, raised)

PollSleep == Sleep("polling_loop")

NextPoll == LoopRequests \/ LoopRadarr \/ Poll \/ PollSleep

SpecPoll == Init /\ [][NextPoll]_vars

\* the three loops on a table holding one grabbed movie, anime or not
Grabbed(anime) ==
  [MediaRequest("MOVIE", "GRABBING", 1, 1, None, 1)
     EXCEPT !.qbit_hash = <<"a", "b">>, !.is_anime = Bool(anime),
            !.updated_at = 2, !.state_changed_at = 2]

LoopInit ==
  /\ \E anime \in BOOLEAN : requests = <<Grabbed(anime)>>
  /\ timeline = <<TimelineEvent(1, "APPROVED", "event", 1),
                  TimelineEvent(1, "GRABBING", "transition", 2)>>
  /\ now = 3
  /\ last = NoCall("init", None)
  /\ txn = [t \in Txns |-> Idle]
  /\ NoDeletion
  /\ NoBackground

Timeouts ==
  \E stuck \in SUBSET (1..MaxReq), raised \in {"None", "check_timeouts"} :
     TimeoutTick(stuck, raised)

TimeoutSleep == Sleep("timeout_checker_loop")

Fallback ==
  \E stuck_requests \in SUBSET (1..MaxReq), item \in IdsOrNone,
     search \in IdsOrNone,
     raised \in {"None", "check_stuck_requests_fallback"} :
     FallbackTick(stuck_requests, item, search, raised)

FallbackSleep == Sleep("jellyfin_fallback_loop")

NextLoops ==
  Poll \/ PollSleep \/ Timeouts \/ TimeoutSleep \/ Fallback \/ FallbackSleep

SpecLoops == LoopInit /\ [][NextLoops]_vars

\* each loop is a task of the event loop: a task that can run is resumed,
\* and asyncio.sleep returns once its interval has passed
LiveLoops ==
  /\ SpecLoops
  /\ WF_vars(Poll) /\ WF_vars(PollSleep)
  /\ WF_vars(Timeouts) /\ WF_vars(TimeoutSleep)
  /\ WF_vars(Fallback) /\ WF_vars(FallbackSleep)

\* a grabbed movie, anime or not, whose download the download client
\* finishes: its "run on complete" hook fires, the poll goes on, and the
\* movie manager reports the import
CompleteInit ==
  /\ \E anime \in BOOLEAN, h \in HashInputs :
        requests = <<[Grabbed(anime) EXCEPT !.qbit_hash = h]>>
  /\ timeline = <<TimelineEvent(1, "APPROVED", "event", 1),
                  TimelineEvent(1, "GRABBING", "transition", 2)>>
  /\ now = 3
  /\ last = NoCall("init", None)
  /\ txn = [t \in Txns |-> Idle]
  /\ NoDeletion
  /\ NoBackground

Completes ==
  \E h \in HashInputs :
     /\ WriteUntil(qbittorrent_webhook(h), MaxFlow)
     /\ UNCHANGED txn

Imports ==
  \E h \in HashInputs, anime \in BOOLEAN :
     /\ WriteUntil(radarr_webhook("Download", 1, h, anime), MaxFlow)
     /\ UNCHANGED txn

NextComplete == Poll \/ PollSleep \/ Completes \/ Imports

SpecComplete == CompleteInit /\ [][NextComplete]_vars

\* the polling task is resumed whenever it can run, and the download
\* client and the movie manager do send their events
LiveComplete ==
  /\ SpecComplete
  /\ WF_vars(Poll) /\ WF_vars(PollSleep)
  /\ WF_vars(Completes) /\ WF_vars(Imports)

\* the broadcaster with SSE clients that connect, read and leave while
\* producers publish updates and deletion events
Connects == Subscribe

Reads == \E i \in 1..MaxClients : Deliver(i)

Leaves == \E i \in 1..MaxClients : Disconnect(i)

Publishes ==
  \E event_type \in {"update", "deletion_started"}, data \in 1..MaxReq :
     Broadcast(event_type, data)

NextSSE == Connects \/ Reads \/ Leaves \/ Publishes

SpecSSE == Init /\ [][NextSSE]_vars

\* webhooks, the download poll and the timeout sweep, each on its session
\* with its commit and its notifications as steps of their own, and an SSE
\* client reading
TxnRequests ==
  \E m \in Ids, raised \in BOOLEAN :
     /\ requests = << >>
     /\ HandleWebhook(jellyseerr_webhook("MEDIA_AUTO_APPROVED", "MOVIE", m,
                                         m, None, TRUE), raised)

TxnRadarr ==
  \E ev \in {"Grab", "Download"}, t \in Ids, h \in Hashes, anime \in BOOLEAN,
     raised \in BOOLEAN :
     HandleWebhook(radarr_webhook(ev, t, h, anime), raised)

TxnPoll ==
  \E torrent \in Torrents, raised \in BOOLEAN : HandlePoll(torrent, raised)

TxnTimeouts ==
  \E stuck \in SUBSET (1..MaxReq), raised \in BOOLEAN :
     HandleTimeouts(stuck, raised)

NextTxn ==
  \/ TxnRequests
  \/ TxnRadarr
  \/ TxnPoll
  \/ TxnTimeouts
  \/ SessionCommit
  \/ SessionBroadcast
  \/ SessionClose
  \/ SessionRollback
  \/ Reads

\* no request yet, and one SSE client connected
TxnInit ==
  /\ requests = << >>
  /\ timeline = << >>
  /\ now = 1
  /\ last = NoCall("init", None)
  /\ txn = [t \in Txns |-> Idle]
  /\ NoDeletion
  /\ tasks = [l \in Loops |-> Started]
  /\ _clients = << << >> >>

SpecTxn == TxnInit /\ [][NextTxn]_vars

\* services deliver their events at least once: every service event of
\* the model about one medium, requested as a movie or as a series, with
\* the download id the download client gave: the request manager's
\* notifications for the medium filed under its own number, grabs and
\* imports of both media managers (an import carrying a file for every
\* episode it lists), the anime matcher's file events and the media
\* server's items.  last.event holds the event a
\* service is about to deliver a second time, last.deliveries how often the
\* event last handled has been delivered.
DupHashes == {<<"a", "b">>}

\* deliveries that write are bounded by the clock: a creation, a grab and
\* an import
MaxDeliveries == 3

NoEvent == << >>

\* the media id every delivered event carries: the events are about one
\* medium
Medium == MaxId

\* the handler of an event run on the table as it is
deliver(ev) ==
  CASE ev[1] = "jellyseerr" ->
         jellyseerr_webhook(ev[2], ev[3], ev[4], TmdbOf(ev[3], ev[4]),
                            TvdbOf(ev[3], ev[4]), TRUE)
    [] ev[1] = "radarr" -> radarr_webhook(ev[2], ev[3], ev[4], FALSE)
    [] ev[1] = "sonarr" ->
         sonarr_webhook(ev[2], ev[3], ev[4], ev[5],
                        IF ev[2] = "Grab" THEN 0 ELSE Cardinality(ev[5]),
                        ev[6])
    [] ev[1] = "shoko" ->
         IF /\ ev[2] \in DOMAIN requests
            /\ ev[3] \in DOMAIN requests[ev[2]].episodes
            /\ requests[ev[2]].episodes[ev[3]].has_path
            /\ requests[ev[2]].episodes[ev[3]].state \in ShokoEpisodeStates
         THEN handle_tv_episode_matched(ev[2], ev[3], ev[4])
         ELSE Unchanged(NoCall("shoko", None))
    [] ev[1] = "jellyfin" ->
         jellyfin_webhook(TmdbOf(ev[2], ev[3]), TvdbOf(ev[2], ev[3]))

Delivered(out, ev, n) ==
  [out EXCEPT !.last = [event |-> ev, deliveries |-> n] @@ out.last]

\* the first delivery of an event, which the service repeats or not
Send(ev, again) ==
  LET out == deliver(ev)
  IN /\ "event" \in DOMAIN last => last.event = NoEvent
     /\ Cardinality(DOMAIN out.db) <= MaxReq
     /\ WriteUntil(Delivered(out, IF again THEN ev ELSE NoEvent, 1),
                   MaxDeliveries)
     /\ UNCHANGED txn

\* the second delivery, right after the first
SendAgain ==
  /\ "event" \in DOMAIN last
  /\ last.event /= NoEvent
  /\ WriteUntil(Delivered(deliver(last.event), NoEvent, 2), MaxDeliveries)
  /\ UNCHANGED txn

DupJellyseerr ==
  \E n \in NotificationTypes, mt \in MediaType, again \in BOOLEAN :
     Send(<<"jellyseerr", n, mt, Medium>>, again)

DupRadarr ==
  \E ev \in {"Grab", "Download"}, h \in DupHashes, again \in BOOLEAN :
     Send(<<"radarr", ev, Medium, h>>, again)

DupSonarr ==
  \E ev \in {"Grab", "Download"}, h \in DupHashes, eps \in EpisodeLists,
     a \in BOOLEAN, again \in BOOLEAN :
     Send(<<"sonarr", ev, Medium, h, eps, a>>, again)

DupShoko ==
  \E rid \in 1..MaxReq, e \in 1..MaxEps, x \in BOOLEAN, again \in BOOLEAN :
     Send(<<"shoko", rid, e, x>>, again)

DupJellyfin ==
  \E mt \in MediaType, again \in BOOLEAN :
     Send(<<"jellyfin", mt, Medium>>, again)

NextDup ==
  \/ DupJellyseerr
  \/ DupRadarr
  \/ DupSonarr
  \/ DupShoko
  \/ DupJellyfin
  \/ SendAgain

SpecDup == Init /\ [][NextDup]_vars

\* the anime matcher on its own: an anime series in any stored state whose
\* imported episodes (each with its file path) are in any episode states
ImportedRows ==
  UNION {[1..n -> {Episode(st, NoHash, TRUE) : st \in EpisodeState}] :
           n \in 1..MaxEps}

ShokoInit ==
  /\ \E st \in RequestState, eps \in ImportedRows :
        requests = <<[MediaRequest("TV", st, 1, 1, 1, 1)
                        EXCEPT !.is_anime = "True", !.episodes = eps]>>
  /\ timeline = <<TimelineEvent(1, "APPROVED", "event", 1)>>
  /\ now = 2
  /\ last = NoCall("init", None)
  /\ txn = [t \in Txns |-> Idle]
  /\ NoDeletion
  /\ NoBackground

NextShoko == Shoko

SpecShoko == ShokoInit /\ [][NextShoko]_vars

\* ------------------------------------------------------------ properties
\* the step just taken called StateMachine.transition on request rid
CalledTransition == last'.called /\ last'.rid \in DOMAIN requests

\* C1: a transition to a target that the table does not list for the
\* current state returns False, leaves state, state_changed_at and
\* updated_at as they were and appends no TimelineEvent.
C1_InvalidTransitionRejected ==
  [][(CalledTransition /\ last'.target \notin VALID_TRANSITIONS[last'.from])
       => /\ last'.ok = FALSE
          /\ requests'[last'.rid].state = requests[last'.rid].state
          /\ requests'[last'.rid].state_changed_at
               = requests[last'.rid].state_changed_at
          /\ requests'[last'.rid].updated_at = requests[last'.rid].updated_at
          /\ timeline' = timeline]_vars

C1_Witness ==
  /\ last.called
  /\ last.ok = FALSE
  /\ last.target \notin VALID_TRANSITIONS[last.from]
  /\ requests[last.rid].state = last.from
  /\ timeline /= << >>

\* C2: a transition to a target that the table lists for the current state
\* returns True, stores the target as the state, sets state_changed_at and
\* updated_at to the current time and appends exactly one TimelineEvent,
\* which records the target.
C2_ValidTransitionApplied ==
  [][(CalledTransition /\ last'.target \in VALID_TRANSITIONS[last'.from])
       => /\ last'.ok = TRUE
          /\ requests'[last'.rid].state = last'.target
          /\ requests'[last'.rid].state_changed_at = now
          /\ requests'[last'.rid].state_changed_at
               > requests[last'.rid].state_changed_at
          /\ requests'[last'.rid].updated_at = now
          /\ Len(timeline') = Len(timeline) + 1
          /\ SubSeq(timeline', 1, Len(timeline)) = timeline
          /\ timeline'[Len(timeline')].request_id = last'.rid
          /\ timeline'[Len(timeline')].state = last'.target]_vars

C2_Witness ==
  /\ last.called
  /\ last.ok = TRUE
  /\ requests[last.rid].state = last.target
  /\ requests[last.rid].state_changed_at > requests[last.rid].created_at
  /\ timeline[Len(timeline)].state = last.target

\* the states the transition table reaches from a set of states
Successors(S) == S \cup UNION {VALID_TRANSITIONS[s] : s \in S}

RECURSIVE Closure(_)
Closure(S) == IF Successors(S) = S THEN S ELSE Closure(Successors(S))

\* the states the table reaches from REQUESTED
FromRequested == Closure({"REQUESTED"})

\* the step just taken changed the state of the stored request rid
StateChanged(rid) ==
  rid \in DOMAIN requests /\ requests'[rid].state /= requests[rid].state

\* the step just taken made a transition call on rid that the table allows
\* and that returned True with the state the request now holds
ValidatedTransition(rid) ==
  /\ last'.called
  /\ last'.rid = rid
  /\ last'.ok
  /\ last'.from = requests[rid].state
  /\ last'.target = requests'[rid].state
  /\ can_transition(requests[rid].state, requests'[rid].state)

\* C3 as stated: every stored state is reachable from REQUESTED, a request
\* starts in REQUESTED and every state it holds afterwards was set by a
\* validated StateMachine.transition call.
C3_OnlyValidatedAssignments ==
  [][\A rid \in DOMAIN requests' :
       /\ requests'[rid].state \in FromRequested
       /\ rid \notin DOMAIN requests => requests'[rid].state = "REQUESTED"
       /\ StateChanged(rid) => ValidatedTransition(rid)]_vars

\* C3 amended: every stored state is reachable from REQUESTED; a request is
\* created by the request manager's adapter in REQUESTED or, when
\* auto-approved, directly in APPROVED, and by the library sync directly in
\* AVAILABLE; every later change of its state was set by a validated
\* StateMachine.transition call.
C3_CreatedThenValidated ==
  [][\A rid \in DOMAIN requests' :
       /\ requests'[rid].state \in FromRequested
       /\ rid \notin DOMAIN requests =>
            \/ /\ last'.op = "create_request"
               /\ requests'[rid].state \in {"REQUESTED", "APPROVED"}
            \/ /\ last'.op = "library_sync"
               /\ requests'[rid].state = "AVAILABLE"
       /\ StateChanged(rid) => ValidatedTransition(rid)]_vars

\* a request created directly in APPROVED that a validated transition moved
\* on, next to one the library sync created directly in AVAILABLE
C3_Witness ==
  \E a, b \in DOMAIN requests :
     /\ \E i \in DOMAIN timeline :
           /\ timeline[i].request_id = a
           /\ timeline[i].kind = "event"
           /\ timeline[i].state = "APPROVED"
     /\ requests[a].state = "GRABBING"
     /\ last.called /\ last.ok /\ last.rid = a /\ last.target = "GRABBING"
     /\ \E i \in DOMAIN timeline :
           /\ timeline[i].request_id = b
           /\ timeline[i].kind = "import"
     /\ requests[b].state = "AVAILABLE"

\* the timeline of one request, oldest first
EventsOf(rid) == SelectSeq(timeline, LAMBDA e : e.request_id = rid)

\* C4: handlers of two events for the same request that run concurrently
\* in separate transactions leave what handling them one after the other
\* leaves: every committed state change follows in the table from the one
\* committed before it (the second event is rejected otherwise) and the
\* stored state is the last one committed, none lost or applied twice.
C4_ConcurrentAsSerial ==
  \A rid \in DOMAIN requests :
     LET es == EventsOf(rid)
     IN /\ \A i \in 2..Len(es) : can_transition(es[i - 1].state, es[i].state)
        /\ es /= << >> => requests[rid].state = es[Len(es)].state

\* a request whose lifecycle has ended
Terminal == {"AVAILABLE", "FAILED", "TIMEOUT"}

\* the requests in a non-terminal state
NonTerminal(db) == {r \in DOMAIN db : db[r].state \notin Terminal}

\* C5: at most one request in a non-terminal state carries a given
\* request-manager id, a given tmdb_id or a given tvdb_id.
C5_IdsUniqueAmongNonTerminal ==
  \A a, b \in NonTerminal(requests) :
     a /= b =>
       /\ requests[a].jellyseerr_id /= None
            => requests[a].jellyseerr_id /= requests[b].jellyseerr_id
       /\ requests[a].tmdb_id /= None
            => requests[a].tmdb_id /= requests[b].tmdb_id
       /\ requests[a].tvdb_id /= None
            => requests[a].tvdb_id /= requests[b].tvdb_id

\* the request a lookup returned is not in one of the states S
NotIn(r, S) == r \in DOMAIN requests => requests[r].state \notin S

\* the requests that carry id under column col
Carrying(col, id) == {r \in DOMAIN requests : requests[r][col] = id}

Newest(S) == CHOOSE r \in S : \A o \in S : requests[o].created_at <= requests[r].created_at

\* C7: when several non-terminal requests carry the same tmdb_id or
\* tvdb_id, the lookup by that id returns the most recently created one.
C7_NewestFirst ==
  \A id \in Ids :
     /\ Cardinality(Carrying("tmdb_id", id) \cap NonTerminal(requests)) > 1
          => find_by_tmdb(requests, id)
               = Newest(Carrying("tmdb_id", id) \cap NonTerminal(requests))
     /\ Cardinality(Carrying("tvdb_id", id) \cap NonTerminal(requests)) > 1
          => find_by_tvdb(requests, id)
               = Newest(Carrying("tvdb_id", id) \cap NonTerminal(requests))

\* the requests whose stored download id equals h but for letter case
Matching(h) ==
  {r \in DOMAIN requests :
     /\ requests[r].qbit_hash /= NoHash
     /\ Len(requests[r].qbit_hash) = Len(h)
     /\ \A i \in 1..Len(h) :
           LowerChar(requests[r].qbit_hash[i]) = LowerChar(h[i])}

\* C8: a lookup by download id returns the request whose stored download
\* id equals it but for letter case, whatever the request's state, and
\* None when no stored download id does.
C8_HashLookupIgnoresCaseAndState ==
  \A h \in HashInputs :
     /\ \A r \in Matching(h) :
           Matching(h) = {r}
             => /\ find_by_hash(requests, h) = r
                /\ find_by_any(requests, None, None, None, h) = r
     /\ Matching(h) = {} => find_by_hash(requests, h) = None

\* the media manager's handler got a request in a terminal state from the
\* lookup, which a download id written in the other letter case finds too
C8_Witness ==
  \E r \in DOMAIN requests, h \in HashInputs :
     /\ requests[r].state \in Terminal
     /\ last.op \in {"radarr_grab", "radarr_download"}
     /\ last.ret = r
     /\ requests[r].qbit_hash /= NoHash
     /\ h /= requests[r].qbit_hash
     /\ find_by_hash(requests, h) = r

\* the first lookup result of a sequence that is not None
RECURSIVE FirstMatch(_)
FirstMatch(results) ==
  IF results = << >> THEN None
  ELSE IF Head(results) /= None THEN Head(results)
  ELSE FirstMatch(Tail(results))

EpisodeStateChanged(rid) ==
  /\ rid \in DOMAIN requests
  /\ \E e \in DOMAIN requests[rid].episodes \cap DOMAIN requests'[rid].episodes :
        requests'[rid].episodes[e].state /= requests[rid].episodes[e].state

\* C10: after every committed event that changes the state of an episode
\* of a series request, the stored request state is what
\* calculate_aggregate_state gives for all the episodes the request has.
C10_RequestStateIsAggregate ==
  [][\A rid \in DOMAIN requests' :
       EpisodeStateChanged(rid)
         => requests'[rid].state = calculate_aggregate_state(requests'[rid])]_vars

\* the episode states of the series the calculator was applied to
EpisodeStates ==
  {requests[1].episodes[e].state : e \in DOMAIN requests[1].episodes}

\* the calculator ran on a series with at least one episode
Aggregated ==
  /\ last.op = "aggregate"
  /\ requests[1].media_type = "TV"
  /\ EpisodeStates /= {}

\* the in-progress states of an episode, highest priority first
Priority ==
  <<"ANIME_MATCHING", "IMPORTING", "DOWNLOADED", "DOWNLOADING", "GRABBING">>

\* C11: for a non-empty episode list the result is AVAILABLE if every
\* episode is AVAILABLE, otherwise FAILED if any episode is FAILED,
\* otherwise the first state of the priority order that an episode is in;
\* the result is AVAILABLE only when every episode is AVAILABLE.
C11_AggregateRules ==
  Aggregated =>
    /\ EpisodeStates = {"AVAILABLE"} => last.target = "AVAILABLE"
    /\ (EpisodeStates /= {"AVAILABLE"} /\ "FAILED" \in EpisodeStates)
         => last.target = "FAILED"
    /\ (EpisodeStates /= {"AVAILABLE"} /\ "FAILED" \notin EpisodeStates)
         => \A i \in DOMAIN Priority :
               (/\ Priority[i] \in EpisodeStates
                /\ \A k \in 1..(i - 1) : Priority[k] \notin EpisodeStates)
                 => last.target = Priority[i]
    /\ last.target = "AVAILABLE" => EpisodeStates = {"AVAILABLE"}

\* C12: the result depends on the multiset of episode states only: it is
\* the same for every reordering of the episodes and for every stored state
\* of the request.
C12_AggregateIsPure ==
  Aggregated =>
    LET n == Len(requests[1].episodes)
    IN \A p \in Permutations(1..n), st \in RequestState :
          calculate_aggregate_state(
            [requests[1] EXCEPT
               !.state = st,
               !.episodes = [i \in 1..n |-> requests[1].episodes[p[i]]]])
            = last.target

\* MediaRequest.timeline_events of one request: its events ordered by
\* timestamp
timeline_events(rid) ==
  SortSeq(EventsOf(rid), LAMBDA a, b : a.timestamp < b.timestamp)

\* the states a sequence of events records
StatesOf(events) == [i \in DOMAIN events |-> events[i].state]

\* the lifecycle of a plain download
Lifecycle ==
  <<"APPROVED", "GRABBING", "DOWNLOADING", "DOWNLOADED", "IMPORTING",
    "AVAILABLE">>

\* C13 as stated: a request created in REQUESTED whose transitions were
\* those of the lifecycle, in that order, has exactly six TimelineEvents
\* and they record, in chronological order, the six resulting states.
C13_SixEvents ==
  \A rid \in DOMAIN requests :
     LET es == timeline_events(rid)
     IN (/\ es /= << >>
         /\ es[1].kind = "event" /\ es[1].state = "REQUESTED"
         /\ StatesOf(SelectSeq(es, LAMBDA e : e.kind = "transition"))
              = Lifecycle)
          => /\ Len(es) = 6
             /\ StatesOf(es) = Lifecycle

\* C13 amended: creation in REQUESTED leaves one TimelineEvent recording
\* REQUESTED; each transition of the lifecycle applied in order after it
\* succeeds and adds one TimelineEvent, so that after the sixth the request
\* has exactly seven TimelineEvents which, in chronological order, record
\* REQUESTED and then the six resulting states.
C13_CreationThenSixEvents ==
  [][\A rid \in DOMAIN requests, k \in 0..(Len(Lifecycle) - 1) :
       (/\ last'.called /\ last'.rid = rid
        /\ last'.target = Lifecycle[k + 1]
        /\ timeline_events(rid)[1].kind = "event"
        /\ StatesOf(timeline_events(rid))
             = <<"REQUESTED">> \o SubSeq(Lifecycle, 1, k))
         => /\ last'.ok
            /\ requests'[rid].state = Lifecycle[k + 1]
            /\ Len(timeline_events(rid)') = k + 2
            /\ StatesOf(timeline_events(rid)')
                 = <<"REQUESTED">> \o SubSeq(Lifecycle, 1, k + 1)]_vars

\* the sixth transition of the lifecycle has just been applied
C13_Witness ==
  \E rid \in DOMAIN requests :
     /\ last.called /\ last.ok /\ last.rid = rid /\ last.target = "AVAILABLE"
     /\ Len(timeline_events(rid)) = 7
     /\ StatesOf(timeline_events(rid)) = <<"REQUESTED">> \o Lifecycle

\* the rows of a deletion log that are about one service, oldest first
EventsFor(deletion_log_id, service) ==
  SelectSeq(sync_events(deletion_log_id), LAMBDA e : e.service = service)

\* the media kinds a service takes part in
AppliesTo(request, service) ==
  CASE service = "sonarr" -> request.media_type = "TV"
    [] service = "radarr" -> request.media_type = "MOVIE"
    [] service = "shoko" -> request.is_anime = "True"
    [] OTHER -> TRUE

\* the id a request carries for a service
IdFor(request, service) ==
  CASE service = "sonarr" -> request.sonarr_id
    [] service = "radarr" -> request.radarr_id
    [] service = "shoko" -> request.shoko_series_id
    [] service = "jellyfin" -> request.jellyfin_id
    [] OTHER -> request.jellyseerr_id

\* the first-phase status of a service when the services in by_scan need
\* no id of their own
Disposition(request, skip_services, service, by_scan) ==
  IF ~AppliesTo(request, service) THEN "NOT_APPLICABLE"
  ELSE IF service \in skip_services THEN "SKIPPED"
  ELSE IF service \notin by_scan /\ IdFor(request, service) = None
  THEN "NOT_NEEDED"
  ELSE "PENDING"

\* the snapshot is committed and the request not yet deleted: each service
\* has exactly one event, with the disposition given
FirstPhase(by_scan) ==
  orch.pc = "phase2" =>
    /\ orch.request_id \in DOMAIN requests
    /\ \A s \in Services :
         LET events == EventsFor(orch.log, s)
         IN /\ Len(events) = 1
            /\ events[1].status =
                 Disposition(requests[orch.request_id], orch.skip_services,
                             s, by_scan)

\* C14 as stated: phase 1 of delete creates exactly one DeletionSyncEvent
\* for each of the five services before the local delete, NOT_APPLICABLE
\* if the service does not apply to the media kind, otherwise SKIPPED if
\* the caller excluded it, otherwise NOT_NEEDED if the request carries no id
\* for it, otherwise PENDING
C14_OneEventPerService == FirstPhase({})

\* C14: phase 1 of delete creates exactly one DeletionSyncEvent for each of
\* the five services before the local delete, NOT_APPLICABLE if the service
\* does not apply, otherwise SKIPPED if the caller excluded it, otherwise
\* NOT_NEEDED if the service is not shoko and the request carries no id for
\* it, otherwise PENDING: shoko is synced by a scan and is PENDING with or
\* without a shoko series id
C14_OneEventPerServiceShokoByScan == FirstPhase({"shoko"})

\* a snapshot whose five events show all four dispositions, shoko PENDING
\* for a request without a shoko series id among them
C14_Witness ==
  /\ orch.pc = "phase2"
  /\ requests[orch.request_id].shoko_series_id = None
  /\ EventsFor(orch.log, "shoko")[1].status = "PENDING"
  /\ {e.status : e \in {sync_events(orch.log)[i] : i \in 1..5}} =
       {"NOT_APPLICABLE", "SKIPPED", "NOT_NEEDED", "PENDING"}

\* the statuses of a log's rows for one service, in chronological order
StatusesFor(deletion_log_id, service) ==
  LET events == EventsFor(deletion_log_id, service)
  IN [i \in 1..Len(events) |-> events[i].status]

\* one step forward in the lattice: PENDING -> ACKNOWLEDGED ->
\* (CONFIRMED -> VERIFIED) | FAILED, FAILED being also what a verification
\* pass writes for a CONFIRMED service whose item is still there
Forward(a, b) ==
  \/ a = "PENDING" /\ b = "ACKNOWLEDGED"
  \/ a = "ACKNOWLEDGED" /\ b \in {"CONFIRMED", "FAILED"}
  \/ a = "CONFIRMED" /\ b \in {"VERIFIED", "FAILED"}

ShortCircuit == {"SKIPPED", "NOT_NEEDED", "NOT_APPLICABLE"}

ForwardOrSkipped(deletion_log_id, service, a, b) ==
  \/ Forward(a, b)
  \/ a = "PENDING" /\ b = "SKIPPED" /\ ~settings.ENABLE_DELETION_SYNC
  \/ /\ a = "ACKNOWLEDGED" /\ b = "SKIPPED"
     /\ service \in {"shoko", "jellyfin"}
     /\ orch.log = deletion_log_id /\ ~orch.delete_files

Removes(rid) == rid \in DOMAIN requests /\ rid \notin DOMAIN requests'

\* C16: in every delete of an existing request the MediaRequest, with its
\* Episodes and TimelineEvents, is removed after the DeletionLog snapshot
\* and its five initial sync events are committed and before any remote
\* service is called, nothing else is removed with it, and once the
\* orchestrator is past phase 2 the request is gone whatever the remote
\* services answer
C16_LocalDeleteFirst ==
  [][/\ \A rid \in DOMAIN requests :
          Removes(rid) =>
            /\ rid = orch.request_id
            /\ orch.log \in DOMAIN deletion_logs
            /\ Len(sync_events(orch.log)) = Len(SERVICES)
            /\ remote = << >> /\ remote' = << >>
            /\ \A i \in 1..Len(timeline') : timeline'[i].request_id /= rid
            /\ \A other \in DOMAIN requests \ {rid} :
                  /\ other \in DOMAIN requests'
                  /\ requests'[other] = requests[other]
            /\ timeline' = SelectSeq(timeline, LAMBDA e : e.request_id /= rid)
     /\ (remote' /= << >> \/ orch'.pc \in {"phase3", "call"}
           \/ (orch'.pc = "returned" /\ orch'.ret /= None))
          => /\ orch'.request_id \notin DOMAIN requests'
             /\ \A i \in 1..Len(timeline') :
                   timeline'[i].request_id /= orch'.request_id]_vars

\* a series with an episode is gone from the store, its log and five
\* events are there, services wait to be synced and none was called yet
C16_Witness ==
  /\ orch.pc = "phase3"
  /\ orch.queue /= << >>
  /\ remote = << >>
  /\ orch.request_id = 1 /\ 1 \notin DOMAIN requests
  /\ deletion_logs[orch.log].media_type = "TV"
  /\ Len(sync_events(orch.log)) = Len(SERVICES)
  /\ Len(timeline) = 1

\* the answers this step received from the service clients
Received == SubSeq(remote', Len(remote) + 1, Len(remote'))

\* the row this step appended last to deletion_sync_events
Recorded == deletion_sync_events'[Len(deletion_sync_events')]

\* C17: when a service's delete call returns non-success, a FAILED
\* DeletionSyncEvent carrying the error detail is written for that service
\* and the services still to be synced stay queued; when delete returns
\* with sync on, every service that was PENDING has been attempted and has
\* its result recorded, whatever failed before it
C17_FailureDoesNotAbort ==
  [][/\ (orch.pc = "call" /\ \E i \in 1..Len(Received) :
                               Received[i].outcome = "failure")
          => /\ Recorded.deletion_log_id = orch.log
             /\ Recorded.service = Head(orch.queue)
             /\ Recorded.status = "FAILED"
             /\ \E i \in 1..Len(Received) :
                   /\ Received[i].outcome = "failure"
                   /\ Recorded.error_message[i] =
                        <<Received[i].op, Received[i].response>>
             /\ orch'.pc = "phase3"
             /\ orch'.queue = Tail(orch.queue)
     /\ (orch'.pc = "returned" /\ orch'.ret /= None
           /\ settings.ENABLE_DELETION_SYNC)
          => \A s \in Services :
               LET st == StatusesFor(orch.ret, s)'
               IN st[1] = "PENDING" =>
                    /\ Len(st) = 3
                    /\ st[2] = "ACKNOWLEDGED"
                    /\ st[3] \in {"CONFIRMED", "FAILED", "SKIPPED"}]_vars

\* delete has returned: the first service synced failed and a service
\* after it was still called and confirmed
C17_Witness ==
  /\ orch.pc = "returned" /\ orch.ret /= None
  /\ Len(remote) >= 2
  /\ remote[1].outcome = "failure"
  /\ StatusesFor(orch.ret, remote[1].service)[3] = "FAILED"
  /\ \E s \in Services \ {remote[1].service} :
        StatusesFor(orch.ret, s) = <<"PENDING", "ACKNOWLEDGED", "CONFIRMED">>

\* the services of a log that delete set out to sync
Attempted(deletion_log_id) ==
  {s \in Services : StatusesFor(deletion_log_id, s)[1] = "PENDING"}

\* every service delete set out to sync ended FAILED, and there was one
EveryRemoteFailed(deletion_log_id) ==
  /\ Attempted(deletion_log_id) /= {}
  /\ \A s \in Attempted(deletion_log_id) :
        LET st == StatusesFor(deletion_log_id, s)
        IN st[Len(st)] = "FAILED"

\* C18: delete returns None exactly when the request does not exist, and
\* has then created no DeletionLog and no DeletionSyncEvent; for a request
\* that exists it goes on past the lookup and what it returns in the end
\* is a stored DeletionLog, whose status is INCOMPLETE when every remote
\* service failed
C18_NoneOnlyWhenMissing ==
  [][/\ orch.pc = "idle" /\ orch'.pc /= "idle" =>
          IF orch'.request_id \in DOMAIN requests
          THEN orch'.pc = "phase2" /\ orch'.log \in DOMAIN deletion_logs'
          ELSE /\ orch'.pc = "returned" /\ orch'.ret = None
               /\ deletion_logs' = << >> /\ deletion_sync_events' = << >>
               /\ UNCHANGED <<requests, timeline, remote>>
     /\ orch.pc \notin {"idle", "returned"} /\ orch'.pc = "returned" =>
          /\ orch'.ret /= None
          /\ orch'.ret \in DOMAIN deletion_logs'
          /\ orch'.ret = orch.log
          /\ EveryRemoteFailed(orch.log)' =>
               deletion_logs'[orch.log].status = "INCOMPLETE"]_vars

\* delete has returned a log of which both services it called failed
C18_Witness ==
  /\ orch.pc = "returned" /\ orch.ret /= None
  /\ Cardinality(Attempted(orch.ret)) >= 2
  /\ EveryRemoteFailed(orch.ret)
  /\ deletion_logs[orch.ret].status = "INCOMPLETE"

\* the latest status of each service of a log
Latest(deletion_log_id) ==
  {LET st == StatusesFor(deletion_log_id, s) IN st[Len(st)] : s \in Services}

\* the overall status the latest statuses call for
Called_for(deletion_log_id) ==
  IF Latest(deletion_log_id) \cap {"PENDING", "ACKNOWLEDGED"} /= {}
  THEN "IN_PROGRESS"
  ELSE IF "FAILED" \in Latest(deletion_log_id) THEN "INCOMPLETE"
  ELSE "COMPLETE"

\* the result of the service last synced has just been recorded
ResultRecorded ==
  /\ orch.pc = "phase3"
  /\ \E s \in Services : Len(StatusesFor(orch.log, s)) >= 3

\* C19 as stated: after each service's result is recorded, and when delete
\* returns, the persisted DeletionLog status is IN_PROGRESS if any
\* service's latest status is PENDING or ACKNOWLEDGED, otherwise INCOMPLETE
\* if any is FAILED, otherwise COMPLETE
C19_StatusAfterEachResult ==
  (ResultRecorded \/ (orch.pc = "returned" /\ orch.ret /= None)) =>
     deletion_logs[orch.log].status = Called_for(orch.log)

\* C19: while delete is running the persisted DeletionLog status stays
\* IN_PROGRESS, also after the result of the last service is recorded; it
\* is computed once, before delete returns, and when delete returns it is
\* IN_PROGRESS if any service's latest status is PENDING or ACKNOWLEDGED,
\* otherwise INCOMPLETE if any is FAILED, otherwise COMPLETE
C19_StatusAtReturn ==
  orch.log /= None =>
     deletion_logs[orch.log].status =
        IF orch.pc = "returned" THEN Called_for(orch.log) ELSE "IN_PROGRESS"

\* delete has returned a log INCOMPLETE: of the services it synced one
\* failed and another was confirmed
C19_Witness ==
  /\ orch.pc = "returned" /\ orch.ret /= None
  /\ deletion_logs[orch.ret].status = "INCOMPLETE"
  /\ {"FAILED", "CONFIRMED"} \subseteq Latest(orch.ret)

\* the place of a service in the order of the remote sync: the services
\* that remove files, the metadata matcher, the media server, the request
\* manager
Place(service) ==
  CASE service \in {"sonarr", "radarr"} -> 1
    [] service = "shoko" -> 2
    [] service = "jellyfin" -> 3
    [] service = "jellyseerr" -> 4

\* the result of syncing a service has been recorded in the log
Settled(deletion_log_id, service) ==
  LET st == StatusesFor(deletion_log_id, service)
  IN st[Len(st)] \in {"CONFIRMED", "FAILED", "SKIPPED"}

\* C20: the remote sync calls the services to be synced in the order
\* sonarr or radarr, shoko, jellyfin, jellyseerr: the calls made so far
\* never go back in that order, and when a service is called every service
\* to be synced that comes before it has its result recorded and every one
\* that comes after it is still PENDING
C20_FixedSyncOrder ==
  [][/\ \A i, j \in 1..Len(remote') :
          i < j => Place(remote'[i].service) <= Place(remote'[j].service)
     /\ Received /= << >> =>
          \A s \in Attempted(orch.log) :
             /\ Place(s) < Place(Received[1].service) =>
                  Settled(orch.log, s)
             /\ Place(s) > Place(Received[1].service) =>
                  StatusesFor(orch.log, s) = <<"PENDING">>]_vars

\* all four kinds of service were called for one delete, in the order
C20_Witness ==
  /\ orch.pc = "returned"
  /\ {Place(remote[i].service) : i \in 1..Len(remote)} = 1..4
  /\ remote[1].service = "sonarr"
  /\ remote[Len(remote)].service = "jellyseerr"

\* the log of the running delete is of a request that uses services A and
\* B, carries an id for A and none for B, and the caller excluded nothing
BothApplicable(A, B) ==
  /\ orch.log /= None
  /\ orch.skip_services = {}
  /\ AppliesTo(deletion_logs[orch.log], A)
  /\ AppliesTo(deletion_logs[orch.log], B)
  /\ IdFor(deletion_logs[orch.log], A) /= None
  /\ IdFor(deletion_logs[orch.log], B) = None

\* B has its single NOT_NEEDED row and A went from PENDING to a terminal
\* status
TerminalAndNotNeeded(A, B) ==
  LET st == StatusesFor(orch.log, A)
  IN /\ StatusesFor(orch.log, B) = <<"NOT_NEEDED">>
     /\ st[1] = "PENDING"
     /\ st[Len(st)] \in {"VERIFIED", "FAILED", "SKIPPED"}

\* every pair of services of the running delete's log that is such a pair
\* shows that outcome
EveryPairSettled ==
  \A A \in Services, B \in Services \ {"shoko"} :
     BothApplicable(A, B) => TerminalAndNotNeeded(A, B)

\* C21: for a request whose media kind makes services A and B both
\* applicable and which carries A's id but not B's (B a service that is
\* synced by id, the caller excluding none), the DeletionLog's events for B
\* are exactly one NOT_NEEDED row, and the events for A start at PENDING and
\* eventually reach a terminal status, VERIFIED, FAILED or SKIPPED
C21_TerminalAndNotNeeded == [](orch.log /= None => <>EveryPairSettled)

\* delete has returned a DeletionLog to its caller
ReturnedLog == orch.pc = "returned" /\ orch.ret /= None

\* a verification of the log delete returned is under way or done: the
\* verifier has left its idle state for that log
VerificationStarted == verifier.pc /= "idle" \/ verifier.log = orch.ret

\* C22: after every delete that returns a DeletionLog a verification pass
\* for that log is scheduled, and runs once after the fixed delay without
\* blocking the return of the orchestrator to its caller
C22_VerificationScheduled == [](ReturnedLog => <>VerificationStarted)

\* what a service answers a query for an item: 200 with the item when it
\* holds it, 404 when it does not, and no usable answer when it is down
Reply(present, up) ==
  IF ~up THEN "error" ELSE IF present THEN "200" ELSE "404"

\* the services of a log whose latest status is CONFIRMED
Confirmed(deletion_log_id) ==
  {s \in Services :
     LET st == StatusesFor(deletion_log_id, s)
     IN st /= << >> /\ st[Len(st)] = "CONFIRMED"}

\* C23: in a verification pass every service whose DeletionSyncEvent status
\* is CONFIRMED is re-queried by its recorded id; if the item is still
\* present a FAILED event with the reason that it still exists is written
\* for the service, and if the item is absent a VERIFIED event is written
C23_ConfirmedRequeried ==
  [][/\ (verifier'.pc = "verify" /\ verifier.pc /= "verify")
          => Confirmed(verifier'.log) \subseteq verifier'.todo
     /\ \A s \in Services, present \in BOOLEAN, up \in BOOLEAN :
          VerifyService(s, Reply(present, up)) =>
            /\ Len(Received) = 1
            /\ Received[1].service = s
            /\ IdFor(deletion_logs[verifier.log], s) /= None
            /\ Recorded.deletion_log_id = verifier.log
            /\ Recorded.service = s
            /\ present => /\ Recorded.status = "FAILED"
                          /\ Recorded.error_message
                               = "Item still exists in service"
            /\ ~present => Recorded.status = "VERIFIED"]_vars

\* this step ends a verification pass
PassEnds == verifier.pc = "verify" /\ verifier'.pc /= "verify"

\* C24: if a verification pass finds any item still present and fewer than
\* the maximum number of retries have been used, another verification pass
\* for the same DeletionLog runs after the same fixed delay
C24_RetryWhilePresent ==
  [][(PassEnds /\ ~verifier.all_verified
        /\ verifier.retry_count < MAX_RETRIES)
       => /\ verifier'.pc = "retry"
          /\ verifier'.log = verifier.log
          /\ verifier'.retry_count = verifier.retry_count + 1]_vars

\* the number of rows the verification passes wrote for a service: the rows
\* that follow its CONFIRMED row
VerificationRows(deletion_log_id, service) ==
  LET st == StatusesFor(deletion_log_id, service)
  IN Cardinality({i \in 1..Len(st) :
                    \E j \in 1..(i - 1) : st[j] = "CONFIRMED"})

\* verify_deletion has returned or raised
Stopped == verifier.pc \in {"done", "raised"}

TerminalStatuses ==
  {"VERIFIED", "FAILED", "SKIPPED", "NOT_NEEDED", "NOT_APPLICABLE"}

\* C26: the completion timestamp of a DeletionLog is set once every
\* service's latest status is terminal (VERIFIED, FAILED, SKIPPED,
\* NOT_NEEDED or NOT_APPLICABLE): it is set when delete has returned the
\* log or the verifier has stopped with every service terminal, and it is
\* not set while any service's latest status is PENDING, ACKNOWLEDGED or
\* CONFIRMED
C26_CompletedWhenTerminal ==
  \A id \in DOMAIN deletion_logs :
     /\ deletion_logs[id].completed_at /= None
          => Latest(id) \subseteq TerminalStatuses
     /\ ((ReturnedLog /\ orch.ret = id) \/ (Stopped /\ verifier.log = id))
          => (Latest(id) \subseteq TerminalStatuses
                => deletion_logs[id].completed_at /= None)

\* C27: in each background loop an exception raised inside one tick is
\* caught and the loop runs its next tick after its interval; no tick
\* failure ever terminates a loop: a loop never ends, a loop that caught an
\* exception sleeps its interval and comes back to its tick, and a loop at
\* its tick comes to its sleep again
LoopInterval(l) ==
  IF l = "timeout_checker_loop" THEN {300}
  ELSE IF l = "jellyfin_fallback_loop" THEN {30}
  ELSE {POLL_FAST, POLL_SLOW, 30}

CaughtAsleep(l) ==
  tasks[l].pc = "sleep" /\ tasks[l].caught /\ tasks[l].interval \in LoopInterval(l)

C27_LoopsSurvive ==
  \A l \in Loops :
     /\ [](tasks[l].pc \in {"tick", "sleep"})
     /\ [](tasks[l].caught => CaughtAsleep(l) \/ tasks[l].pc = "tick")
     /\ [](CaughtAsleep(l) => <>(tasks[l].pc = "tick"))
     /\ [](tasks[l].pc = "tick" => <>(tasks[l].pc = "sleep"))

\* every loop has caught an exception and is back at its next tick
C27_Witness ==
  \A l \in Loops : tasks[l].caught /\ tasks[l].pc = "tick"

\* at least one tracked request is in GRABBING or DOWNLOADING
ActiveDownloads(db) ==
  \E r \in DOMAIN db : db[r].state \in {"GRABBING", "DOWNLOADING"}

\* the step is one poll tick and the loop sleeps for fast seconds when a
\* download is active in the table the tick leaves, slow seconds otherwise
SleepsFor(torrent, raised, fast, slow) ==
  PollTick(torrent, raised) =>
     /\ tasks'["polling_loop"].pc = "sleep"
     /\ tasks'["polling_loop"].interval =
          IF ActiveDownloads(requests') THEN fast ELSE slow

RadarrImport(t, h, anime) ==
  /\ WriteUntil(radarr_webhook("Download", t, h, anime), MaxFlow)
  /\ UNCHANGED txn

\* C30: after an import (Download) event from Radarr for a tracked movie
\* that has already been grabbed (request in GRABBING, DOWNLOADING or
\* DOWNLOADED when the event arrives), the request is in ANIME_MATCHING if
\* its is_anime flag is true and in IMPORTING otherwise
C30_ImportRoutes ==
  [][\A t \in Ids, h \in Hashes, anime \in BOOLEAN :
        LET request == find_by_any(requests, t, None, None, h)
        IN (/\ request \notin {None, Raise}
            /\ requests[request].state \in
                 {"GRABBING", "DOWNLOADING", "DOWNLOADED"}
            /\ RadarrImport(t, h, anime))
           => requests'[request].state =
                IF requests'[request].is_anime = "True"
                THEN "ANIME_MATCHING" ELSE "IMPORTING"]_vars

\* C29: publishing a change notification never blocks the producer; when
\* no consumer is subscribed the event is dropped, and undelivered events
\* are never buffered without bound: a producer can always publish, a
\* publication without clients leaves nothing behind, and however many
\* events are published no client's queue holds all of them
C29_NonBlockingBounded ==
  /\ []((\A i \in DOMAIN _clients : Len(_clients[i]) < MaxEvents)
          => ENABLED Publishes)
  /\ [][(Publishes /\ _clients = << >>) => _clients' = << >>]_vars
  /\ [](\A i \in DOMAIN _clients : Len(_clients[i]) < MaxEvents)

\* the step is Shoko's FileMatched with cross-references for episode e of
\* request rid, which is in ANIME_MATCHING
MatchedWhileMatching(rid, e) ==
  /\ rid \in DOMAIN requests
  /\ e \in DOMAIN requests[rid].episodes
  /\ requests[rid].episodes[e].state = "ANIME_MATCHING"
  /\ ShokoFileMatched(rid, e, TRUE)

C32_StuckTimesOut ==
  [][\A stuck \in SUBSET (1..MaxReq) :
        TimeoutTick(stuck, "None") =>
          \A r \in stuck : requests'[r].state = "TIMEOUT"]_vars

\* the requests of movie t whose lifecycle has ended, and the live ones
Older(t) == {r \in Carrying("tmdb_id", t) : requests[r].state \in Terminal}

Fresh(t) == Carrying("tmdb_id", t) \cap NonTerminal(requests)

\* the step handled an event of movie t: it resolved to the fresh request
\* and left every older terminal request as it was
AppliedToFresh(t) ==
  /\ last'.ret \in Fresh(t)
  /\ \A o \in Older(t) : requests'[o] = requests[o]

\* C33: a previously available or failed request never intercepts an event
\* meant for a fresh request of the same media: once the fresh request
\* exists, every later grab, import and availability event for that media
\* is applied to the fresh request and leaves the older terminal request
\* unchanged, whichever identifiers the event carries
C33_FreshRequestGetsEvents ==
  [][\A t \in Ids :
        (Older(t) /= {} /\ Cardinality(Fresh(t)) = 1) =>
          /\ \A ev \in {"Grab", "Download"}, h \in Hashes :
                RadarrWebhook(ev, t, h, FALSE) => AppliedToFresh(t)
          /\ JellyfinWebhook(t, None) => AppliedToFresh(t)]_vars

\* ------------------------------------------------------------------ C34
\* the rows of one service in one deletion log, in timestamp order
ServiceRows(id, service) ==
  SelectSeq(sync_events(id), LAMBDA e : e.service = service)

IsPrefix(s, t) ==
  /\ Len(s) <= Len(t)
  /\ \A i \in 1..Len(s) : t[i] = s[i]

Notified(i) ==
  /\ i \in DOMAIN _clients'
  /\ Len(_clients'[i]) > Len(_clients[i])

Observed(db) ==
  [r \in DOMAIN db |->
     [state |-> db[r].state, state_changed_at |-> db[r].state_changed_at,
      episodes |-> [e \in DOMAIN db[r].episodes |->
                      db[r].episodes[e].state]]]

CompleteWhileGrabbing(r) ==
  /\ last.op = "qbittorrent"
  /\ last.called
  /\ last.rid = r
  /\ last.from = "GRABBING"

DownloadedOrLater == {"DOWNLOADED", "IMPORTING", "ANIME_MATCHING", "AVAILABLE"}

LeftGrabbing(r) ==
  /\ r \in DOMAIN requests
  /\ requests[r].state \in DownloadedOrLater

\* C37: a request whose torrent was reported complete while it was still
\* GRABBING eventually reaches DOWNLOADED or a later state
C37_CompleteLeavesGrabbing ==
  \A r \in 1..MaxReq : [](CompleteWhileGrabbing(r) => <>LeftGrabbing(r))

\* the same for a movie that is not anime, which the import moves on
C37_PlainMovieLeavesGrabbing ==
  \A r \in 1..MaxReq :
     []((/\ CompleteWhileGrabbing(r)
         /\ r \in DOMAIN requests
         /\ requests[r].is_anime = "False") => <>LeftGrabbing(r))

\* ------------------------------------------------------------------ C38
\* the requests tracking the medium a manager reports: the movie manager
\* its movies by tmdb id, the series manager its series by tvdb id
TrackedBy(service, media_id) ==
  {r \in DOMAIN requests :
     IF service = "radarr"
     THEN requests[r].media_type = "MOVIE" /\ requests[r].tmdb_id = media_id
     ELSE requests[r].media_type = "TV" /\ requests[r].tvdb_id = media_id}

\* the delete webhook of a service started the deletion of request r: a
\* new DeletionLog whose row for the service says SKIPPED
DeletionStarted(service, r) ==
  /\ orch'.pc = "phase2"
  /\ orch'.request_id = r
  /\ orch'.log \in DOMAIN deletion_logs' \ DOMAIN deletion_logs
  /\ \E i \in DOMAIN deletion_sync_events' :
        /\ deletion_sync_events'[i].deletion_log_id = orch'.log
        /\ deletion_sync_events'[i].service = service
        /\ deletion_sync_events'[i].status = "SKIPPED"

\* C38: with deletion sync on, a MovieDelete or SeriesDelete for media a
\* request tracks, in whatever state the request is, starts the deletion
\* of that request with a DeletionLog that has the sending service
\* SKIPPED, and the sending service is never called
C38_ManagerDeleteDeletes ==
  /\ [][\A service \in {"radarr", "sonarr"}, delete_files \in BOOLEAN :
          \A r \in TrackedBy(service, 1) :
             DeleteWebhook(service, 1, delete_files)
               => DeletionStarted(service, r)]_vars
  /\ [](\A i \in DOMAIN remote : remote[i].service \notin orch.skip_services)

\* the same for the requests in the states the lookups accept
C38_ActiveRequestDeleted ==
  /\ [][\A service \in {"radarr", "sonarr"}, delete_files \in BOOLEAN :
          \A r \in TrackedBy(service, 1) :
             (/\ requests[r].state \in ACTIVE_STATES
              /\ DeleteWebhook(service, 1, delete_files))
               => DeletionStarted(service, r)]_vars
  /\ [](\A i \in DOMAIN remote : remote[i].service \notin orch.skip_services)

\* ------------------------------------------------------------------ C39
\* a verification pass over the log has ended
PassEnded == verifier.pc \in {"done", "retry", "raised"}

\* C39: when a verification pass has ended, a log with a service whose
\* latest status is FAILED has the status INCOMPLETE
C39_StatusFollowsVerification ==
  PassEnded =>
     LET statuses == service_statuses(sync_events(verifier.log))
     IN (\E s \in Services : statuses[s] = "FAILED") =>
           deletion_logs[verifier.log].status = "INCOMPLETE"

\* ------------------------------------------------------------------ C40
\* this step of a verification pass wrote a VERIFIED row
WroteVerified ==
  /\ verifier.pc = "verify"
  /\ Len(deletion_sync_events') = Len(deletion_sync_events) + 1
  /\ Recorded.status = "VERIFIED"

\* this step of a verification pass made a query that got no usable answer
QueryFailed ==
  /\ verifier.pc = "verify"
  /\ Len(Received) = 1
  /\ Received[1].response = "error"

\* a query that failed leaves its service not VERIFIED
FailedQueryNotVerified == [][QueryFailed => ~WroteVerified]_vars

\* C40: a VERIFIED row is written for a service only by a step whose query
\* was answered that the item is absent; a step whose query got no usable
\* answer writes no VERIFIED row
C40_VerifiedOnlyWhenAbsent ==
  [][/\ WroteVerified => Len(Received) = 1 /\ Received[1].response = "404"
     /\ QueryFailed => ~WroteVerified]_vars
====
